---- MODULE Spec2Model ----
(***************************************************************************)
(* Verification model of the causal-alignment core of circuits-benchmark:  *)
(*   - make_edge_corr            (src/iit_utils/correspondence.py)         *)
(*   - get_interventions         (src/utils/resampling_ablation_loss/...)  *)
(*   - build_hook_fns, regular_intervention_hook_fn, evaluate_iia          *)
(*                               (src/circuits_benchmark/metrics/iia.py)   *)
(* Each subsystem has its own specification (SpecEdge, SpecSampler, ...);  *)
(* the variables of the other subsystems stay at their idle values.        *)
(***************************************************************************)
EXTENDS Integers, Sequences, FiniteSets, TLC

VARIABLES
  \* ---- make_edge_corr ----
  hl_ll_corr,      \* the correspondence: sequence of <<TracrHLNode, set of LLNode>> in dict order
  tracr_edge,      \* the high-level edge of the last loop iteration, <<>> before the first
  edges_done,      \* number of high-level edges iterated so far
  ll_edges,        \* the list ll_edges built so far
  last_emitted,    \* the EdgeCorrs appended by the last loop iteration
  edge_pc,         \* "idle" | "loop" | "returned"
  \* ---- get_interventions ----
  hook_dict,       \* base_model.hook_dict.keys(), in registry order
  hyp_hook_dict,   \* hypothesis_model.hook_dict.keys()
  hook_filters,    \* [none |-> BOOLEAN, list |-> sequence of filter strings]
  n_options,       \* len(InterventionType.get_available_interventions(autoencoder))
  max_interventions, \* the budget
  rng,             \* state of the process-wide generator of module `random`
  gen_pc,          \* "idle" | "created" | "running" | "exhausted" | "raised"
  hook_names_for_patching, \* the eligible hooks of the running generator
  indices,         \* the indices the generator iterates over
  next_i,          \* position in `indices` of the next index
  yielded,         \* the Interventions yielded by the current call, in order
  prev_yielded,    \* the Interventions yielded by the previous call
  calls,           \* number of calls of get_interventions made so far
  \* ---- build_hook_fns / regular_intervention_hook_fn ----
  base_model_clean_cache,            \* hook name -> tensor
  hypothesis_model_clean_cache,
  base_model_corrupted_cache,
  hypothesis_model_corrupted_cache,
  hook_name,                         \* the hook the node names
  head_index,                        \* the node's head, NoHead for None
  ablation_type,                     \* the ablation type passed to build_hook_fns
  base_model_patching_data,          \* hook name -> tensor, bound into base_model_hook_fn
  hypothesis_model_patching_data,    \* hook name -> tensor, bound into hypothesis_model_hook_fn
  activation,                        \* the activation tensor the last hook call received (it may be written in place)
  hook_ret,                          \* what the last hook call returned
  hooks_pc,        \* "idle" | "start" | "built" | "raised" | "base_run" | "hyp_run"
  \* ---- the sweeps: evaluate_iia and get_resampling_ablation_loss ----
  sweep_fn,        \* "none" | "evaluate_iia" | "get_resampling_ablation_loss"
  iia_granularity, \* "head" | "qkv"
  sweep_ablation,  \* the ablation_type argument of evaluate_iia
  base_cfg,        \* base_model.cfg: [n_layers, n_heads, n_ctx, d_vocab]
  hypothesis_cfg,  \* hypothesis_model.cfg
  clean_inputs,    \* the clean dataset: [id, inputs]
  corrupted_inputs, \* the corrupted dataset
  sweep_budget,    \* the max_interventions argument of get_resampling_ablation_loss
  circuit,         \* set(full_circuit.nodes) of the base model
  ll_circuit,      \* the nodes of the ground-truth low-level circuit
  categorical,     \* base_model.is_categorical()
  ablations_todo,  \* the ablation types evaluate_iia_on_all_ablation_types has still to run
  iia_evaluation_results, \* the rows: node string -> [in_circuit, columns]
  cache_passes,    \* the run_with_cache passes made so far
  sweep_caches,    \* the four activation caches: how often each was captured, and its content
  nodes_todo,      \* the nodes of all_nodes not iterated yet
  node,            \* the node of the current iteration
  interventions_todo, \* interventions get_interventions has still to yield
  batches_todo,    \* batches of the current intervention still to run
  base_model_hooks,       \* the patches installed on the base model
  hypothesis_model_hooks, \* the patches installed on the hypothesis model
  last_forward,    \* the last forward pass: [model, kind, hooks_seen]
  results_by_node, \* the nodes evaluate_iia has stored a result for
  pending_exc,     \* whether an exception is propagating out of a `with` block
  sweep_pc,        \* position in the sweep
  \* ---- the metrics of one evaluate_iia iteration (categorical case) ----
  base_model_original_logits,        \* per example, per position: a distribution
  hypothesis_model_original_logits,
  base_model_intervened_logits,
  hypothesis_model_intervened_logits,
  inputs_with_different_output,      \* per example: clean and corrupted outputs differ
  metrics_ablation,                  \* the ablation type of the iteration
  result_dict,                       \* results_by_node[node_str]
  metrics_pc,                        \* "idle" | "start" | "done"
  \* ---- TracrCorrespondence: construction, item assignment, save and load ----
  tracr_hl_corr,   \* the ordered dict basis direction -> high-level location
  tracr_ll_corr,   \* None, or the dict (label, value) -> set of low-level locations
  hook_name_style, \* "tl" | "wrapper"
  tracr_corr,            \* the TracrCorrespondence: an ordered dict as a sequence of items
  setitems,        \* item assignments made so far
  corr_file,       \* the pickled bytes save wrote
  loaded_corr,     \* what load returned
  corr_pc,         \* "idle" | "start" | "made" | "raised" | "saved" | "loaded"
  \* ---- hook_name and idx of make_hl_ll_corr ----
  addr_loc,        \* the location (layer, attn_or_mlp, unit) passed to the helpers
  addr_style,      \* the style passed to hook_name
  addr_hook_name,  \* outcome of hook_name(loc, style): pending, returned (value) or raised
  addr_idx,        \* outcome of idx(loc): pending, returned (value) or raised
  \* ---- get_unique_data ----
  unique_total_len,     \* total_len = get_total_len(case)
  unique_max_len,       \* the argument max_len
  test_inputs,          \* data.get_inputs(), in the order the case returned them
  test_outputs,         \* data.get_correct_outputs()
  unique_test_inputs,   \* the inputs selected so far / returned
  unique_test_outputs,  \* the outputs selected so far / returned
  unique_pc,            \* "idle" | "start" | "drawn" | "deduped" | "returned"
  \* ---- TracrBenchmarkCase.get_clean_data ----
  min_samples,       \* the argument min_samples: None or an integer
  max_samples,       \* the argument max_samples: None or an integer
  total_data_len,    \* self.get_total_data_len()
  unique_data,       \* the argument unique_data
  data_branch,       \* the branch of lines 157-167 taken: "all" | "sample_min" | "sample_max" | "none"
  input_data,        \* the list input_data (<<>> while it is None)
  output_data,       \* the list output_data (<<>> while it is None)
  clean_pc,          \* "idle" | "start" | "selected" | "asserted" | "deduped" | "returned" | "raised"
  \* ---- TracrBenchmarkCase.gen_all_data and get_total_data_len ----
  vals,              \* sorted(list(self.get_vocab()))
  min_seq_len,       \* the argument min_seq_len (BOS included)
  max_seq_len,       \* the argument max_seq_len (BOS included)
  seq_len,           \* the loop variable of line 251
  next_index,        \* the next value of the loop variable of line 256
  all_input_data,    \* the list input_data of gen_all_data
  all_output_data,   \* the list output_data of gen_all_data
  total_len,         \* what get_total_data_len() returned, -1 before the call
  all_pc,            \* "idle" | "loop" | "returned"
  \* NonLinearCompressedTracrTransformerTrainer
  freeze_ae_weights,              \* the constructor argument freeze_ae_weights
  ae_training_epochs_gap,         \* the constructor argument ae_training_epochs_gap
  ae_max_training_epochs,         \* the constructor argument ae_max_training_epochs
  ae_first_pass_epochs,           \* ae_training_args.epochs
  n_autoencoders,                 \* len(autoencoders_dict)
  epochs_since_last_ae_training,  \* the counter; -1 while the attribute is not set
  call_max_epochs,                \* the argument max_epochs of the running train_autoencoders call
  ae_position,                    \* position of the for loop of train_autoencoders; 0 outside a call
  ae_training_epoch,              \* the local ae_training_epoch of the current autoencoder
  test_mse_high,                  \* test_metrics["test_mse"] > ae_desired_test_mse
  epochs_started,                 \* number of training_epoch calls begun
  retrained_at,                   \* the epochs at whose start train_autoencoders was called
  ae_return_pc,                   \* where the running train_autoencoders call returns to
  trainer_pc                      \* position of the trainer

edgeVars == <<hl_ll_corr, tracr_edge, edges_done, ll_edges, last_emitted, edge_pc>>

samplerArgs == <<hook_dict, hyp_hook_dict, hook_filters, n_options, max_interventions>>

samplerVars == <<samplerArgs, rng, gen_pc, hook_names_for_patching, indices, next_i,
                 yielded, prev_yielded, calls>>

caches == <<base_model_clean_cache, hypothesis_model_clean_cache,
            base_model_corrupted_cache, hypothesis_model_corrupted_cache>>

hooksVars == <<caches, hook_name, head_index, ablation_type, base_model_patching_data,
               hypothesis_model_patching_data, activation, hook_ret, hooks_pc>>

sweepArgs == <<sweep_fn, iia_granularity, base_cfg, hypothesis_cfg, clean_inputs,
               corrupted_inputs, sweep_budget, circuit, ll_circuit, categorical>>

\* The state of evaluate_iia_on_all_ablation_types around its calls of evaluate_iia.
allState == <<sweep_ablation, ablations_todo, iia_evaluation_results, cache_passes,
              sweep_caches>>

sweepVars == <<sweepArgs, allState, nodes_todo, node, interventions_todo, batches_todo,
               base_model_hooks, hypothesis_model_hooks, last_forward, results_by_node,
               pending_exc, sweep_pc>>

logits == <<base_model_original_logits, hypothesis_model_original_logits,
            base_model_intervened_logits, hypothesis_model_intervened_logits>>

metricsVars == <<logits, inputs_with_different_output, metrics_ablation, result_dict,
                 metrics_pc>>

corrArgs == <<tracr_hl_corr, tracr_ll_corr, hook_name_style>>

corrVars == <<corrArgs, tracr_corr, setitems, corr_file, loaded_corr, corr_pc>>

addrVars == <<addr_loc, addr_style, addr_hook_name, addr_idx>>

uniqueVars == <<unique_total_len, unique_max_len, test_inputs, test_outputs,
                unique_test_inputs, unique_test_outputs, unique_pc>>

cleanVars == <<min_samples, max_samples, total_data_len, unique_data, data_branch,
               input_data, output_data, clean_pc>>

genVars == <<vals, min_seq_len, max_seq_len, seq_len, next_index, all_input_data,
             all_output_data, total_len, all_pc>>

trainerVars == <<freeze_ae_weights, ae_training_epochs_gap, ae_max_training_epochs,
                 ae_first_pass_epochs, n_autoencoders, epochs_since_last_ae_training,
                 call_max_epochs, ae_position, ae_training_epoch, test_mse_high,
                 epochs_started, retrained_at, ae_return_pc, trainer_pc>>

vars == <<edgeVars, samplerVars, hooksVars, sweepVars, metricsVars, corrVars, addrVars, uniqueVars, cleanVars, genVars, trainerVars>>

\* What each subsystem's actions leave alone: the variables of the others.
edgeFrame == <<samplerVars, hooksVars, sweepVars, metricsVars, corrVars, addrVars, uniqueVars, cleanVars, genVars, trainerVars>>
samplerFrame == <<edgeVars, hooksVars, sweepVars, metricsVars, corrVars, addrVars, uniqueVars, cleanVars, genVars, trainerVars>>
hooksFrame == <<edgeVars, samplerVars, sweepVars, metricsVars, corrVars, addrVars, uniqueVars, cleanVars, genVars, trainerVars>>
sweepFrame == <<edgeVars, samplerVars, hooksVars, metricsVars, corrVars, addrVars, uniqueVars, cleanVars, genVars, trainerVars>>
metricsFrame == <<edgeVars, samplerVars, hooksVars, sweepVars, corrVars, addrVars, uniqueVars, cleanVars, genVars, trainerVars>>
corrFrame == <<edgeVars, samplerVars, hooksVars, sweepVars, metricsVars, addrVars, uniqueVars, cleanVars, genVars, trainerVars>>
addrFrame == <<edgeVars, samplerVars, hooksVars, sweepVars, metricsVars, corrVars, uniqueVars, cleanVars, genVars, trainerVars>>
uniqueFrame == <<edgeVars, samplerVars, hooksVars, sweepVars, metricsVars, corrVars, addrVars, cleanVars, genVars, trainerVars>>
cleanFrame == <<edgeVars, samplerVars, hooksVars, sweepVars, metricsVars, corrVars, addrVars, uniqueVars, genVars, trainerVars>>
genFrame == <<edgeVars, samplerVars, hooksVars, sweepVars, metricsVars, corrVars, addrVars, uniqueVars, cleanVars, trainerVars>>
trainerFrame == <<edgeVars, samplerVars, hooksVars, sweepVars, metricsVars, corrVars, addrVars, uniqueVars, cleanVars, genVars>>

\* Python's None, where it is compared with strings only.
None == "None"

(***************************************************************************)
(* Generic helpers                                                         *)
(***************************************************************************)

\* All orders in which a Python set can be iterated.
Enumerations(S) ==
  { s \in [1..Cardinality(S) -> S] : \A i, j \in 1..Cardinality(S) : i # j => s[i] # s[j] }

RECURSIVE Flatten(_)
Flatten(ss) == IF ss = <<>> THEN <<>> ELSE Head(ss) \o Flatten(Tail(ss))

\* Number of occurrences of x in the sequence s.
Count(s, x) == Cardinality({ i \in 1..Len(s) : s[i] = x })

Range(s) == { s[i] : i \in 1..Len(s) }

(***************************************************************************)
(* make_edge_corr                                                          *)
(***************************************************************************)

\* Bounds of the edge model.
MaxKeys == 2
MaxEdges == 2

\* Labels the high-level nodes carry, and labels an edge endpoint may name
\* ("w" is a label no HLNode carries).
NodeLabels == {"u", "v"}
EdgeLabels == {"u", "v", "w"}

LLNodeA == [name |-> "blocks.0.attn.hook_result", index |-> "Ix[:, :, 0, :]"]
LLNodeB == [name |-> "blocks.0.attn.hook_result", index |-> "Ix[:, :, 1, :]"]
LLNodeC == [name |-> "blocks.1.mlp.hook_post", index |-> "Ix[[None]]"]

\* The realization sets a correspondence value is drawn from.
RealizationSets == { {LLNodeA, LLNodeB}, {LLNodeC}, {LLNodeA} }

\* A TracrHLNode key; the i-th key is the node of block i, so keys are unique.
TracrHLNode(i, label) ==
  [name |-> <<"blocks", i, "mlp", "hook_post">>, label |-> label, num_classes |-> 0,
   index |-> "Ix[[None]]"]

Correspondences ==
  UNION { { [i \in 1..n |-> <<TracrHLNode(i, ls[i]), vs[i]>>] :
              ls \in [1..n -> NodeLabels], vs \in [1..n -> RealizationSets] } :
          n \in 0..MaxKeys }

EdgeCorr(ll_from, ll_to) ==
  [hookpoint_from |-> ll_from.name, index_from |-> ll_from.index,
   hookpoint_to |-> ll_to.name, index_to |-> ll_to.index]

\* The inner loop over hl_ll_corr.keys(): found.from / found.to are the positions
\* of hl_node_from / hl_node_to in the dict (0 is None).
FindHLNodesBody(found, i, hl_node, edge) ==
  IF edge[1] = hl_node.label THEN [found EXCEPT !.from = i]
  ELSE IF edge[2] = hl_node.label THEN [found EXCEPT !.to = i]
  ELSE found

RECURSIVE FindHLNodes(_, _, _, _)
FindHLNodes(corr, edge, i, found) ==
  IF i > Len(corr) THEN found
  ELSE FindHLNodes(corr, edge, i + 1, FindHLNodesBody(found, i, corr[i][1], edge))

\* The EdgeCorrs one loop iteration appends, given the iteration orders of the two sets.
CrossProduct(order_from, order_to) ==
  Flatten([i \in 1..Len(order_from) |->
             [j \in 1..Len(order_to) |-> EdgeCorr(order_from[i], order_to[j])]])

\* What one iteration of the outer loop appends: the set of possible chunks.
EdgeChunks(corr, edge) ==
  LET found == FindHLNodes(corr, edge, 1, [from |-> 0, to |-> 0])
  IN IF found.from = 0 \/ found.to = 0
     THEN { <<>> }
     ELSE { CrossProduct(fo, to) :
              fo \in Enumerations(corr[found.from][2]),
              to \in Enumerations(corr[found.to][2]) }

EdgeIdle ==
  /\ hl_ll_corr = <<>>
  /\ tracr_edge = <<>>
  /\ edges_done = 0
  /\ ll_edges = <<>>
  /\ last_emitted = <<>>
  /\ edge_pc = "idle"

EdgeInit ==
  /\ hl_ll_corr \in Correspondences
  /\ tracr_edge = <<>>
  /\ edges_done = 0
  /\ ll_edges = <<>>
  /\ last_emitted = <<>>
  /\ edge_pc = "loop"

\* One iteration of `for tracr_edge in tracr_edges`.
EdgeIteration ==
  /\ edge_pc = "loop"
  /\ edges_done < MaxEdges
  /\ \E edge \in EdgeLabels \X EdgeLabels :
       \E chunk \in EdgeChunks(hl_ll_corr, edge) :
         /\ tracr_edge' = edge
         /\ last_emitted' = chunk
         /\ ll_edges' = ll_edges \o chunk
  /\ edges_done' = edges_done + 1
  /\ UNCHANGED <<hl_ll_corr, edge_pc>>
  /\ UNCHANGED edgeFrame

\* `return ll_edges` once tracr_edges is exhausted.
EdgeReturn ==
  /\ edge_pc = "loop"
  /\ edge_pc' = "returned"
  /\ UNCHANGED <<hl_ll_corr, tracr_edge, edges_done, ll_edges, last_emitted>>
  /\ UNCHANGED edgeFrame

EdgeNext == EdgeIteration \/ EdgeReturn

(***************************************************************************)
(* Claims about make_edge_corr                                             *)
(***************************************************************************)

\* Positions of the HLNode keys whose label equals the edge's source / target label.
MatchedFrom == { i \in 1..Len(hl_ll_corr) : hl_ll_corr[i][1].label = tracr_edge[1] }
MatchedTo == { i \in 1..Len(hl_ll_corr) : hl_ll_corr[i][1].label = tracr_edge[2] }

\* The cross-product of the realizations of the matched endpoints.
ExpectedEdgeCorrs ==
  { EdgeCorr(a, b) : a \in UNION { hl_ll_corr[i][2] : i \in MatchedFrom },
                     b \in UNION { hl_ll_corr[i][2] : i \in MatchedTo } }

\* C1: for an edge (u, v) whose two labels are matched by HLNodes mapped to A and B,
\* the iteration emits exactly one EdgeCorr per pair of A x B and no other EdgeCorr.
C1_CrossProductExactlyOnce ==
  (tracr_edge # <<>> /\ MatchedFrom # {} /\ MatchedTo # {}) =>
    /\ \A e \in ExpectedEdgeCorrs : Count(last_emitted, e) = 1
    /\ Range(last_emitted) \subseteq ExpectedEdgeCorrs

\* C2: an edge is skipped exactly when one of its endpoint labels is the label of no
\* HLNode key; an edge with both labels matched (also a self-loop, also shared labels)
\* contributes the realizations of all matched HLNodes.
C2_SkippedIffUnmatched ==
  tracr_edge # <<>> =>
    /\ (last_emitted = <<>>) <=> (MatchedFrom = {} \/ MatchedTo = {})
    /\ (MatchedFrom # {} /\ MatchedTo # {}) => Range(last_emitted) = ExpectedEdgeCorrs

(***************************************************************************)
(* get_interventions                                                       *)
(***************************************************************************)

\* Bounds of the sampler model.
MaxOptions == 3       \* largest number of available intervention types
MaxSample == 3        \* largest budget below the exhaustive ones
RngStates == 3        \* number of states of the modelled random generator
MaxCalls == 2         \* calls of get_interventions in one behaviour

\* Hook names, split at "." and "_" so that Python's substring test `f in name`
\* is the contiguous-subsequence test on these pieces.
hook_embed == <<"hook", "_", "embed">>
hook_mlp_in == <<"blocks", ".", "0", ".", "hook", "_", "mlp", "_", "in">>
hook_mlp_out == <<"blocks", ".", "0", ".", "hook", "_", "mlp", "_", "out">>

\* The hook registry of a HookedTransformer, in registration order.
HookUniverse == <<hook_embed, hook_mlp_in, hook_mlp_out>>

\* Registries: the sub-lists of the universe.
Registries ==
  { SelectSeq(HookUniverse, LAMBDA h : h \in S) : S \in SUBSET Range(HookUniverse) }

\* `sub in s` for Python strings.
Contains(sub, s) ==
  \E i \in 0..(Len(s) - Len(sub)) : \A j \in 1..Len(sub) : s[i + j] = sub[j]

\* The default hook_filters of get_resampling_ablation_loss.
DefaultHookFilters ==
  [none |-> FALSE,
   list |-> << <<"hook", "_", "embed">>, <<"hook", "_", "pos", "_", "embed">>,
               <<"hook", "_", "attn", "_", "out">>, <<"hook", "_", "mlp", "_", "out">> >>]

NoHookFilters == [none |-> TRUE, list |-> <<>>]

\* The hook_filters values a caller passes: None, the default, [] and ["mlp"].
HookFilterChoices ==
  { NoHookFilters, DefaultHookFilters, [none |-> FALSE, list |-> <<>>],
    [none |-> FALSE, list |-> << <<"mlp">> >>] }

\* hook_dict keys are strings, so the `hook_name is None` branch is never taken.
should_hook_name_be_skipped_due_to_filters(name, filters) ==
  IF filters.none THEN FALSE
  ELSE ~ \E i \in 1..Len(filters.list) : Contains(filters.list[i], name)

HookNamesForPatching(hook_names, filters) ==
  SelectSeq(hook_names, LAMBDA name : ~ should_hook_name_be_skipped_due_to_filters(name, filters))

\* InterventionType.get_available_interventions: the m available types, by ordinal.
AvailableInterventions(m) == [i \in 1..m |-> i - 1]

RECURSIVE Pow(_, _)
Pow(b, e) == IF e = 0 THEN 1 ELSE b * Pow(b, e - 1)

\* random.sample(range(n), b) in generator state s: b distinct elements of range(n),
\* a function of the generator state; the draw advances the state.
random_sample(s, n, b) == [j \in 1..b |-> (s + j - 1) % n]
random_advance(s, b) == (s + b) % RngStates

\* np.base_repr(number, base): the digits of number, most significant first, "0" for 0.
RECURSIVE base_repr_digits(_, _)
base_repr_digits(num, base) ==
  IF num = 0 THEN <<>> ELSE Append(base_repr_digits(num \div base, base), num % base)

base_repr(number, base) ==
  LET res == base_repr_digits(number, base) IN IF res = <<>> THEN <<0>> ELSE res

\* str.zfill(width): left-pad with "0" up to width, never truncate.
zfill(str, width) ==
  IF Len(str) >= width THEN str ELSE [i \in 1..(width - Len(str)) |-> 0] \o str

\* Lines 96-97: the intervention types of one index.
InterventionTypes(index, options, hook_names) ==
  LET digits == zfill(base_repr(index, Len(options)), Len(hook_names))
  IN [d \in 1..Len(digits) |-> options[digits[d] + 1]]

Intervention(hook_names, intervention_types) ==
  [hook_names |-> hook_names, intervention_types |-> intervention_types]

\* Mutant of SampledIndices: the exhaustive branch iterates range(max_interventions).
SampledIndices_budgetRange(s, budget, total) ==
  IF budget < total THEN random_sample(s, total, budget) ELSE [j \in 1..budget |-> j - 1]

\* Lines 87-92: the indices to iterate over.
SampledIndices(s, budget, total) ==
  IF budget < total THEN random_sample(s, total, budget) ELSE [j \in 1..total |-> j - 1]

TotalNumberCombinations(m, k) == Pow(m, k)

\* The budgets tried for a joint space of `total` assignments.
Budgets(total) == (0..MaxSample) \cup {total, total + 1}

SamplerIdle ==
  /\ hook_dict = <<>>
  /\ hyp_hook_dict = <<>>
  /\ hook_filters = NoHookFilters
  /\ n_options = 0
  /\ max_interventions = 0
  /\ rng = 0
  /\ gen_pc = "idle"
  /\ hook_names_for_patching = <<>>
  /\ indices = <<>>
  /\ next_i = 0
  /\ yielded = <<>>
  /\ prev_yielded = <<>>
  /\ calls = 0

\* get_interventions(...) is called: the generator object exists, its body has not run.
SamplerInit ==
  /\ hook_dict \in Registries
  /\ hyp_hook_dict \in {hook_dict, <<>>}
  /\ hook_filters \in HookFilterChoices
  /\ n_options \in 2..MaxOptions
  /\ max_interventions \in
       Budgets(TotalNumberCombinations(n_options,
                 Len(HookNamesForPatching(hook_dict, hook_filters))))
  /\ rng \in 0..(RngStates - 1)
  /\ gen_pc = "created"
  /\ hook_names_for_patching = <<>>
  /\ indices = <<>>
  /\ next_i = 0
  /\ yielded = <<>>
  /\ prev_yielded = <<>>
  /\ calls = 1

\* The loop body at the current index: build the Intervention and yield it.
YieldIntervention(names, idxs, i) ==
  Intervention(names, InterventionTypes(idxs[i], AvailableInterventions(n_options), names))

\* First next() on the generator: lines 74-92, then the first iteration of the loop.
GenFirstNext ==
  /\ gen_pc = "created"
  /\ LET names == HookNamesForPatching(hook_dict, hook_filters)
         total == TotalNumberCombinations(n_options, Len(names))
         idxs == SampledIndices(rng, max_interventions, total)
     IN IF \E i \in 1..Len(names) : names[i] \notin Range(hyp_hook_dict)
        THEN \* the assertion of lines 79-80 fails
             /\ gen_pc' = "raised"
             /\ UNCHANGED <<rng, hook_names_for_patching, indices, next_i, yielded>>
        ELSE /\ hook_names_for_patching' = names
             /\ indices' = idxs
             /\ rng' = IF max_interventions < total
                       THEN random_advance(rng, max_interventions) ELSE rng
             /\ IF idxs = <<>>
                THEN /\ gen_pc' = "exhausted"
                     /\ UNCHANGED <<next_i, yielded>>
                ELSE /\ gen_pc' = "running"
                     /\ next_i' = 2
                     /\ yielded' = <<YieldIntervention(names, idxs, 1)>>
  /\ UNCHANGED <<samplerArgs, prev_yielded, calls>>
  /\ UNCHANGED samplerFrame

\* A later next(): the next iteration of `for index in indices`, or StopIteration.
GenNext ==
  /\ gen_pc = "running"
  /\ IF next_i > Len(indices)
     THEN /\ gen_pc' = "exhausted"
          /\ UNCHANGED <<next_i, yielded>>
     ELSE /\ yielded' = Append(yielded, YieldIntervention(hook_names_for_patching, indices, next_i))
          /\ next_i' = next_i + 1
          /\ UNCHANGED gen_pc
  /\ UNCHANGED <<samplerArgs, rng, hook_names_for_patching, indices, prev_yielded, calls>>
  /\ UNCHANGED samplerFrame

\* Other code draws from the process-wide generator, before or between calls.
OtherDraw ==
  /\ gen_pc \in {"created", "exhausted"}
  /\ rng' = random_advance(rng, 1)
  /\ UNCHANGED <<samplerArgs, gen_pc, hook_names_for_patching, indices, next_i,
                 yielded, prev_yielded, calls>>
  /\ UNCHANGED samplerFrame

\* get_interventions is called again with the same arguments.
CallAgain ==
  /\ gen_pc = "exhausted"
  /\ calls < MaxCalls
  /\ calls' = calls + 1
  /\ prev_yielded' = yielded
  /\ gen_pc' = "created"
  /\ hook_names_for_patching' = <<>>
  /\ indices' = <<>>
  /\ next_i' = 0
  /\ yielded' = <<>>
  /\ UNCHANGED <<samplerArgs, rng>>
  /\ UNCHANGED samplerFrame

SamplerNext == GenFirstNext \/ GenNext \/ OtherDraw \/ CallAgain

(***************************************************************************)
(* Claims about get_interventions                                          *)
(***************************************************************************)

\* k, the number of eligible hooks, and m^k, stated from the arguments of the call.
EligibleHooks ==
  { hook_dict[i] : i \in { j \in 1..Len(hook_dict) :
      hook_filters.none \/ \E f \in Range(hook_filters.list) : Contains(f, hook_dict[j]) } }
NumEligible == Cardinality(EligibleHooks)
JointSpaceSize == Pow(n_options, NumEligible)
MinOf(a, b) == IF a <= b THEN a ELSE b

\* C3: a call of get_interventions that runs to completion yields exactly
\* min(max_interventions, m^k) joint assignments, no two of them equal; with
\* max_interventions >= m^k these are m^k distinct assignments, one per index of [0, m^k).
C3_BudgetedDistinctAssignments ==
  /\ \A i, j \in 1..Len(yielded) : i # j => yielded[i] # yielded[j]
  /\ gen_pc = "exhausted" =>
       /\ Len(yielded) = MinOf(max_interventions, JointSpaceSize)
       /\ max_interventions >= JointSpaceSize =>
            /\ Cardinality(Range(yielded)) = JointSpaceSize
            /\ Range(indices) = 0..(JointSpaceSize - 1)

\* Witness of C3: an undersampled call (budget below m^k) that yielded at least two
\* assignments and finished.
C3_Witness ==
  /\ gen_pc = "exhausted"
  /\ max_interventions < JointSpaceSize
  /\ Len(yielded) >= 2
  /\ Len(yielded) = max_interventions

\* The base-m digits of i, left-padded to k digits, as intervention types.
DigitsOf(i, m, k) == [d \in 1..k |-> (i \div Pow(m, k - d)) % m]

\* C4: every index i of [0, m^k) is mapped to exactly k intervention types, the base-m
\* digits of i left-padded to k digits; distinct indices give distinct sequences, and
\* an exhaustive call produces every length-k sequence.
C4_IndexToAssignmentBijection ==
  /\ \A i \in 1..Len(yielded) :
       /\ Len(yielded[i].intervention_types) = NumEligible
       /\ yielded[i].intervention_types = DigitsOf(indices[i], n_options, NumEligible)
  /\ \A i, j \in 1..Len(yielded) :
       indices[i] # indices[j] => yielded[i].intervention_types # yielded[j].intervention_types
  /\ (gen_pc = "exhausted" /\ max_interventions >= JointSpaceSize) =>
       { yielded[i].intervention_types : i \in 1..Len(yielded) }
         = [1..NumEligible -> 0..(n_options - 1)]

\* C5: two completed undersampling calls (budget < m^k) with identical arguments yield
\* the same sequence of joint assignments, whatever was drawn from the process-wide
\* generator before or between them.
C5_SameArgumentsSameSequence ==
  (calls >= 2 /\ gen_pc = "exhausted" /\ max_interventions < JointSpaceSize) =>
    yielded = prev_yielded

\* C6: no hook whose name contains "mlp_in" is among the hooks get_interventions patches.
C6_NoMlpInPatched ==
  \A i \in 1..Len(hook_names_for_patching) :
    ~ Contains(<<"mlp", "_", "in">>, hook_names_for_patching[i])


(***************************************************************************)
(* Tensors                                                                 *)
(***************************************************************************)

\* Bounds of the tensor model.
MaxBatch == 2         \* largest batch size
MaxSeed == 1          \* cache contents are drawn from the patterns 0..MaxSeed

RECURSIVE Factorial(_)
Factorial(n) == IF n = 0 THEN 1 ELSE n * Factorial(n - 1)

\* Activation values are multiples of Unit, so that a mean over a batch of up to
\* MaxBatch values is computed exactly.
Unit == Factorial(MaxBatch)

RECURSIVE Product(_)
Product(shape) == IF shape = <<>> THEN 1 ELSE Head(shape) * Product(Tail(shape))

RECURSIVE SumSeq(_)
SumSeq(xs) == IF xs = <<>> THEN 0 ELSE Head(xs) + SumSeq(Tail(xs))

MaxOfSeq(shape) == IF shape = <<>> THEN 0 ELSE CHOOSE m \in Range(shape) : \A x \in Range(shape) : x <= m

\* The index tuples (1-based) of a tensor of the given shape.
Indices(shape) ==
  { idx \in [1..Len(shape) -> 1..MaxOfSeq(shape)] : \A a \in 1..Len(shape) : idx[a] <= shape[a] }

Tensor(shape, data) == [shape |-> shape, data |-> data]

\* Row-major position of idx in a tensor of the given shape.
RECURSIVE Offset(_, _)
Offset(idx, shape) ==
  IF idx = <<>> THEN 0
  ELSE (Head(idx) - 1) * Product(Tail(shape)) + Offset(Tail(idx), Tail(shape))

\* The activation patterns caches are filled with: all zero for seed 0, otherwise
\* pairwise distinct values.
Fill(shape, seed) ==
  Tensor(shape, [idx \in Indices(shape) |-> Unit * seed * (1 + Offset(idx, shape))])

\* torch.Tensor.mean(dim=0)
TensorMean0(t) ==
  Tensor(Tail(t.shape),
         [idx \in Indices(Tail(t.shape)) |->
            SumSeq([b \in 1..t.shape[1] |-> t.data[<<b>> \o idx]]) \div t.shape[1]])

\* torch.Tensor.repeat(*sizes): the tensor is given leading axes of size 1 up to
\* len(sizes) and tiled sizes[a] times along axis a; fewer sizes than axes is an error.
RepeatRaises(t, sizes) == Len(sizes) < Len(t.shape)

TensorRepeat(t, sizes) ==
  LET pad == Len(sizes) - Len(t.shape)
      padded == [a \in 1..Len(sizes) |-> IF a <= pad THEN 1 ELSE t.shape[a - pad]]
      out == [a \in 1..Len(sizes) |-> sizes[a] * padded[a]]
  IN Tensor(out,
            [idx \in Indices(out) |->
               t.data[[a \in 1..Len(t.shape) |-> ((idx[a + pad] - 1) % padded[a + pad]) + 1]]])

\* torch.zeros_like
ZerosLike(t) == Tensor(t.shape, [idx \in Indices(t.shape) |-> 0])

(***************************************************************************)
(* build_hook_fns and regular_intervention_hook_fn                         *)
(***************************************************************************)

NoHead == -1

AblationTypes == {"zero", "mean", "resample"}

\* The hooks a cache holds an activation for.
CachedHooks == {"hook_embed", "blocks.0.attn.hook_result"}

\* Shapes of an activation after the batch axis. With 3 axes the third is the head axis.
TrailShapes == { <<2>>, <<1, 2>>, <<2, 1>>, <<1, 2, 1>>, <<1, 2, 2>>, <<1, 2, 1, 1>> }

\* A cache whose activations all have the given shape; the two hooks hold different
\* patterns unless the seed is 0.
Cache(shape, seed) ==
  [h \in CachedHooks |-> Fill(shape, IF h = "hook_embed" THEN seed ELSE 2 * seed)]

\* Lines 256-261: the mean over the batch axis, repeated shape[0] times. The number of
\* sizes given to repeat is decided by the rank of the base model's activation.
MeanRepeatSizes(base_shape, own_shape) ==
  IF Len(base_shape) = 3 THEN <<own_shape[1], 1, 1>> ELSE <<own_shape[1], 1, 1, 1>>

\* Mutant of MeanPatch: the batch mean is not repeated back to the batch size.
MeanPatch_notRepeated(clean, base_shape) == TensorMean0(clean)

MeanPatch(clean, base_shape) ==
  TensorRepeat(TensorMean0(clean), MeanRepeatSizes(base_shape, clean.shape))

MeanPatchRaises(clean, base_shape) ==
  RepeatRaises(TensorMean0(clean), MeanRepeatSizes(base_shape, clean.shape))

\* Lines 248-249: the corrupted-cache activation itself.
ResamplePatch(clean_cache, corrupted_cache, name) == corrupted_cache[name]

\* Lines 264-265.
ZeroPatch(clean_cache, name) == ZerosLike(clean_cache[name])

\* Whether computing one model's patching data raises: an ablation type that is none
\* of the three (line 268), or a repeat with fewer sizes than axes.
PatchingDataRaises(name, clean_cache, abl, base_shape) ==
  \/ abl \notin AblationTypes
  \/ abl = "mean" /\ MeanPatchRaises(clean_cache[name], base_shape)

\* One model's patching data: the dict {hook_name: replacement}.
PatchingData(name, clean_cache, corrupted_cache, abl, base_shape) ==
  [h \in {name} |->
     CASE abl = "resample" -> ResamplePatch(clean_cache, corrupted_cache, name)
       [] abl = "mean" -> MeanPatch(clean_cache[name], base_shape)
       [] abl = "zero" -> ZeroPatch(clean_cache, name)]

\* Mutant of build_hook_fns: the hypothesis model's patching data is computed from the
\* base model's caches.
build_hook_fns_baseCachesForBoth(name, b_clean, h_clean, b_corrupted, h_corrupted, abl) ==
  LET b_shape == b_clean[name].shape
  IN IF PatchingDataRaises(name, b_clean, abl, b_shape)
     THEN [raised |-> TRUE, base |-> [h \in {} |-> 0], hyp |-> [h \in {} |-> 0]]
     ELSE [raised |-> FALSE,
           base |-> PatchingData(name, b_clean, b_corrupted, abl, b_shape),
           hyp |-> PatchingData(name, b_clean, b_corrupted, abl, b_shape)]

\* Mutant of build_hook_fns: the hypothesis model's patching data is computed with its
\* clean cache in the place of its corrupted cache.
build_hook_fns_hypothesisFromClean(name, b_clean, h_clean, b_corrupted, h_corrupted, abl) ==
  LET b_shape == b_clean[name].shape
  IN IF \/ PatchingDataRaises(name, b_clean, abl, b_shape)
        \/ PatchingDataRaises(name, h_clean, abl, b_shape)
     THEN [raised |-> TRUE, base |-> [h \in {} |-> 0], hyp |-> [h \in {} |-> 0]]
     ELSE [raised |-> FALSE,
           base |-> PatchingData(name, b_clean, b_corrupted, abl, b_shape),
           hyp |-> PatchingData(name, h_clean, h_clean, abl, b_shape)]

\* build_hook_fns: [raised, base, hyp], base and hyp being the patching-data dicts the
\* two hook functions are partially applied to.
build_hook_fns(name, b_clean, h_clean, b_corrupted, h_corrupted, abl) ==
  LET b_shape == b_clean[name].shape
  IN IF \/ PatchingDataRaises(name, b_clean, abl, b_shape)
        \/ PatchingDataRaises(name, h_clean, abl, b_shape)
     THEN [raised |-> TRUE, base |-> [h \in {} |-> 0], hyp |-> [h \in {} |-> 0]]
     ELSE [raised |-> FALSE,
           base |-> PatchingData(name, b_clean, b_corrupted, abl, b_shape),
           hyp |-> PatchingData(name, h_clean, h_corrupted, abl, b_shape)]

\* Mutant of regular_intervention_hook_fn: the head's slice is written into the
\* patching data instead of the activation.
regular_intervention_hook_fn_writesCache(act, name, corrupted_cache, head) ==
  IF head = NoHead
  THEN [ret |-> corrupted_cache[name], activation |-> act, corrupted_cache |-> corrupted_cache]
  ELSE LET written ==
             Tensor(act.shape,
                    [idx \in Indices(act.shape) |->
                       IF idx[3] = head + 1 THEN act.data[idx]
                       ELSE corrupted_cache[name].data[idx]])
       IN [ret |-> act, activation |-> act,
           corrupted_cache |-> [corrupted_cache EXCEPT ![name] = written]]

\* Mutant of regular_intervention_hook_fn: the head index is ignored.
regular_intervention_hook_fn_wholeHook(act, name, corrupted_cache, head) ==
  [ret |-> corrupted_cache[name], activation |-> act, corrupted_cache |-> corrupted_cache]

\* regular_intervention_hook_fn(activation, hook, corrupted_cache, head_index): what it
\* returns, and the activation and the patching data as the call leaves them.
regular_intervention_hook_fn(act, name, corrupted_cache, head) ==
  IF head = NoHead
  THEN [ret |-> corrupted_cache[name], activation |-> act, corrupted_cache |-> corrupted_cache]
  ELSE LET written ==
             Tensor(act.shape,
                    [idx \in Indices(act.shape) |->
                       IF idx[3] = head + 1 THEN corrupted_cache[name].data[idx]
                       ELSE act.data[idx]])
       IN [ret |-> written, activation |-> written, corrupted_cache |-> corrupted_cache]

NoTensor == Tensor(<<>>, <<>>)
NoDict == [h \in {} |-> 0]

HooksIdle ==
  /\ base_model_clean_cache = NoDict
  /\ hypothesis_model_clean_cache = NoDict
  /\ base_model_corrupted_cache = NoDict
  /\ hypothesis_model_corrupted_cache = NoDict
  /\ hook_name = "hook_embed"
  /\ head_index = NoHead
  /\ ablation_type = "resample"
  /\ base_model_patching_data = NoDict
  /\ hypothesis_model_patching_data = NoDict
  /\ activation = NoTensor
  /\ hook_ret = NoTensor
  /\ hooks_pc = "idle"

\* The heads a node of this hook may name: a head of the attention result when both
\* models' activations have a head axis (batch, pos, head, d_head), else None.
HeadChoices(b_shape, h_shape) ==
  {NoHead} \cup
    (IF Len(b_shape) = 4 /\ Len(h_shape) = 4 /\ b_shape[3] = h_shape[3]
     THEN 0..(b_shape[3] - 1) ELSE {})

\* The four caches have been captured; the batch size is common to both models and to
\* clean and corrupted data, the remaining axes are each model's own.
HooksInit ==
  /\ \E batch \in 1..MaxBatch, b_trail \in TrailShapes, h_trail \in TrailShapes :
       \E bc \in 0..MaxSeed, hc \in 0..MaxSeed, bx \in 0..MaxSeed, hx \in 0..MaxSeed :
         /\ base_model_clean_cache = Cache(<<batch>> \o b_trail, bc)
         /\ hypothesis_model_clean_cache = Cache(<<batch>> \o h_trail, hc)
         /\ base_model_corrupted_cache = Cache(<<batch>> \o b_trail, bx)
         /\ hypothesis_model_corrupted_cache = Cache(<<batch>> \o h_trail, hx)
         /\ head_index \in HeadChoices(<<batch>> \o b_trail, <<batch>> \o h_trail)
  /\ hook_name \in CachedHooks
  /\ ablation_type = "resample"
  /\ base_model_patching_data = NoDict
  /\ hypothesis_model_patching_data = NoDict
  /\ activation = NoTensor
  /\ hook_ret = NoTensor
  /\ hooks_pc = "start"

\* Lines 141-146: build_hook_fns is called for the node.
BuildHookFns ==
  /\ hooks_pc = "start"
  /\ \E abl \in AblationTypes \cup {"median"} :
       LET fns == build_hook_fns(hook_name, base_model_clean_cache,
                                 hypothesis_model_clean_cache, base_model_corrupted_cache,
                                 hypothesis_model_corrupted_cache, abl)
       IN /\ ablation_type' = abl
          /\ hooks_pc' = IF fns.raised THEN "raised" ELSE "built"
          /\ base_model_patching_data' = fns.base
          /\ hypothesis_model_patching_data' = fns.hyp
  /\ UNCHANGED <<caches, hook_name, head_index, activation, hook_ret>>
  /\ UNCHANGED hooksFrame

\* Lines 148-149: the base model runs the clean data; at hook_name the hook function
\* receives the activation the clean run computes there.
RunBaseHook ==
  /\ hooks_pc = "built"
  /\ LET out == regular_intervention_hook_fn(base_model_clean_cache[hook_name], hook_name,
                                              base_model_patching_data, head_index)
     IN /\ hook_ret' = out.ret
        /\ activation' = out.activation
        /\ base_model_patching_data' = out.corrupted_cache
  /\ hooks_pc' = "base_run"
  /\ UNCHANGED <<caches, hook_name, head_index, ablation_type, hypothesis_model_patching_data>>
  /\ UNCHANGED hooksFrame

\* Lines 151-152: the same for the hypothesis model with its own hook function.
RunHypothesisHook ==
  /\ hooks_pc = "base_run"
  /\ LET out == regular_intervention_hook_fn(hypothesis_model_clean_cache[hook_name],
                                              hook_name, hypothesis_model_patching_data,
                                              head_index)
     IN /\ hook_ret' = out.ret
        /\ activation' = out.activation
        /\ hypothesis_model_patching_data' = out.corrupted_cache
  /\ hooks_pc' = "hyp_run"
  /\ UNCHANGED <<caches, hook_name, head_index, ablation_type, base_model_patching_data>>
  /\ UNCHANGED hooksFrame

HooksNext == BuildHookFns \/ RunBaseHook \/ RunHypothesisHook


(***************************************************************************)
(* Claims about build_hook_fns and regular_intervention_hook_fn            *)
(***************************************************************************)

BaseHookCalled == hooks_pc = "built" /\ hooks_pc' = "base_run"
HypothesisHookCalled == hooks_pc = "base_run" /\ hooks_pc' = "hyp_run"

\* What a hook call must have done, given the activation that came in, the patching
\* data before and after the call, and the returned tensor.
HookFnContract(incoming, patch_before, patch_after, ret) ==
  /\ patch_after = patch_before
  /\ head_index = NoHead => ret = patch_before[hook_name]
  /\ head_index # NoHead =>
       /\ ret.shape = incoming.shape
       /\ \A idx \in Indices(incoming.shape) :
            /\ idx[3] = head_index + 1 => ret.data[idx] = patch_before[hook_name].data[idx]
            /\ idx[3] # head_index + 1 => ret.data[idx] = incoming.data[idx]

\* C8: with head_index = None the hook function returns the replacement tensor; with
\* head_index = h it returns the incoming activation with head h's slice taken from the
\* replacement and every other head's slice unchanged; the replacement is not modified.
C8_HookReplacesWholeOrOneHead ==
  [][ /\ BaseHookCalled =>
           HookFnContract(base_model_clean_cache[hook_name], base_model_patching_data,
                          base_model_patching_data', hook_ret')
      /\ HypothesisHookCalled =>
           HookFnContract(hypothesis_model_clean_cache[hook_name],
                          hypothesis_model_patching_data,
                          hypothesis_model_patching_data', hook_ret')
      /\ (BaseHookCalled \/ HypothesisHookCalled) => UNCHANGED caches ]_vars

\* Witness of C8: a hook call with a head index returned a tensor that is neither the
\* replacement nor the incoming activation (one head replaced, the other kept).
C8_Witness ==
  /\ hooks_pc = "base_run"
  /\ head_index # NoHead
  /\ hook_ret # base_model_patching_data[hook_name]
  /\ hook_ret # base_model_clean_cache[hook_name]

\* The replacement has the clean activation's shape and holds, at every batch index, the
\* clean activation averaged over the batch axis.
IsBatchMeanOf(patch, clean) ==
  /\ patch.shape = clean.shape
  /\ \A idx \in Indices(clean.shape) :
       patch.data[idx] * clean.shape[1] =
         SumSeq([b \in 1..clean.shape[1] |-> clean.data[[idx EXCEPT ![1] = b]]])

MeanBuilt == ablation_type = "mean" /\ hooks_pc \in {"built", "raised", "base_run", "hyp_run"}

MeanAblationHolds ==
  /\ hooks_pc # "raised"
  /\ IsBatchMeanOf(base_model_patching_data[hook_name], base_model_clean_cache[hook_name])
  /\ IsBatchMeanOf(hypothesis_model_patching_data[hook_name],
                   hypothesis_model_clean_cache[hook_name])

\* C9 as stated: for "mean" and clean activations of any shape (batch first), each
\* model's replacement has its clean activation's shape and holds the batch mean at
\* every batch index.
C9_MeanAnyShape == MeanBuilt => MeanAblationHolds

BothRank(r) ==
  /\ Len(base_model_clean_cache[hook_name].shape) = r
  /\ Len(hypothesis_model_clean_cache[hook_name].shape) = r

\* C9 amended: the same, for clean activations that have 3 axes in both models or
\* 4 axes in both models.
C9_MeanRank3Or4 == (MeanBuilt /\ (BothRank(3) \/ BothRank(4))) => MeanAblationHolds

\* Witness of C9: mean patches were built for a batch of at least two examples whose
\* clean activations differ along the batch axis, the two models' shapes being different.
C9_Witness ==
  /\ MeanBuilt /\ hooks_pc = "built"
  /\ BothRank(3) \/ BothRank(4)
  /\ base_model_clean_cache[hook_name].shape[1] >= 2
  /\ base_model_patching_data[hook_name] # base_model_clean_cache[hook_name]
  /\ hypothesis_model_patching_data[hook_name] # hypothesis_model_clean_cache[hook_name]
  /\ base_model_clean_cache[hook_name].shape # hypothesis_model_clean_cache[hook_name].shape

IsZeroOfShape(patch, clean) ==
  /\ patch.shape = clean.shape
  /\ \A idx \in Indices(clean.shape) : patch.data[idx] = 0

\* C10: each model's replacement comes from that model's own caches at hook_name: for
\* "zero" the all-zero tensor of the shape of its clean activation, for "resample" its
\* corrupted-cache activation, unaltered.
C10_OwnCachesZeroResample ==
  hooks_pc = "built" =>
    /\ DOMAIN base_model_patching_data = {hook_name}
    /\ DOMAIN hypothesis_model_patching_data = {hook_name}
    /\ ablation_type = "zero" =>
         /\ IsZeroOfShape(base_model_patching_data[hook_name],
                          base_model_clean_cache[hook_name])
         /\ IsZeroOfShape(hypothesis_model_patching_data[hook_name],
                          hypothesis_model_clean_cache[hook_name])
    /\ ablation_type = "resample" =>
         /\ base_model_patching_data[hook_name] = base_model_corrupted_cache[hook_name]
         /\ hypothesis_model_patching_data[hook_name] =
              hypothesis_model_corrupted_cache[hook_name]

\* Witness of C10: resample patches were built where the two models' corrupted
\* activations differ from each other and from their clean activations.
C10_Witness ==
  /\ hooks_pc = "built"
  /\ ablation_type = "resample"
  /\ base_model_corrupted_cache[hook_name] # hypothesis_model_corrupted_cache[hook_name]
  /\ base_model_corrupted_cache[hook_name] # base_model_clean_cache[hook_name]
  /\ hypothesis_model_corrupted_cache[hook_name] # hypothesis_model_clean_cache[hook_name]


(***************************************************************************)
(* The sweeps: evaluate_iia and get_resampling_ablation_loss               *)
(***************************************************************************)

\* Bounds of the sweep model.
MaxInterventions == 2   \* interventions yielded to get_resampling_ablation_loss
MaxBatches == 2         \* batches per intervention

hook_attn_q == <<"blocks", ".", "0", ".", "attn", ".", "hook", "_", "q">>
hook_attn_result == <<"blocks", ".", "0", ".", "attn", ".", "hook", "_", "result">>

CircuitNode(name, index) == [name |-> name, index |-> index]

NoNode == CircuitNode(<<>>, NoHead)

\* set(full_circuit.nodes) of a one-layer model.
FullCircuitNodes ==
  { CircuitNode(hook_embed, NoHead), CircuitNode(hook_mlp_in, NoHead),
    CircuitNode(hook_mlp_out, NoHead), CircuitNode(hook_attn_q, 0),
    CircuitNode(hook_attn_result, 0) }

\* The circuits of the networks a sweep is run on: the full one-layer circuit, and a
\* circuit none of whose locations is eligible at head granularity.
Circuits ==
  { FullCircuitNodes,
    { CircuitNode(hook_mlp_in, NoHead), CircuitNode(hook_attn_q, 0) } }

\* The caches evaluate_iia hands to build_hook_fns for a node: one entry at the node's
\* hook, with a head axis when the node has a head index.
NodeCache(n, seed) ==
  [h \in {n.name} |->
     Fill(IF n.index = NoHead THEN <<1, 1, 1>> ELSE <<1, 1, 1, 1>>, seed)]

\* A whole cache: the activation of every hook of the circuit.
CircuitCache(c, seed) ==
  [h \in { n.name : n \in c } |-> NodeCache(CHOOSE n \in c : n.name = h, seed)[h]]

\* The four caches before any of them was captured.
NoCaches ==
  [base_clean |-> [captures |-> 0, content |-> <<>>],
   hyp_clean |-> [captures |-> 0, content |-> <<>>],
   base_corrupted |-> [captures |-> 0, content |-> <<>>],
   hyp_corrupted |-> [captures |-> 0, content |-> <<>>]]

\* The caches a caller of evaluate_iia passes in: captured outside the sweep.
ArgumentCaches(c) ==
  [base_clean |-> [captures |-> 0, content |-> CircuitCache(c, 1)],
   hyp_clean |-> [captures |-> 0, content |-> CircuitCache(c, 1)],
   base_corrupted |-> [captures |-> 0, content |-> CircuitCache(c, 0)],
   hyp_corrupted |-> [captures |-> 0, content |-> CircuitCache(c, 0)]]

\* Lines 54-59: the four run_with_cache passes, each capturing one cache.
run_with_cache(cs, c) ==
  [base_clean |-> [captures |-> cs.base_clean.captures + 1, content |-> CircuitCache(c, 1)],
   hyp_clean |-> [captures |-> cs.hyp_clean.captures + 1, content |-> CircuitCache(c, 1)],
   base_corrupted |-> [captures |-> cs.base_corrupted.captures + 1,
                       content |-> CircuitCache(c, 0)],
   hyp_corrupted |-> [captures |-> cs.hyp_corrupted.captures + 1,
                      content |-> CircuitCache(c, 0)]]

\* Lines 141-146: build_hook_fns on the caches of the sweep, for the current node.
BuiltHookFns ==
  build_hook_fns(node.name, sweep_caches.base_clean.content, sweep_caches.hyp_clean.content,
                 sweep_caches.base_corrupted.content, sweep_caches.hyp_corrupted.content,
                 sweep_ablation)

\* The caches after a patched forward pass of evaluate_iia called the node's hook
\* function. Under resample ablation the patching data is the corrupted cache's own
\* tensor (line 246-247 store it without a copy), so what the hook function leaves in
\* its patching data is what the cache holds afterwards.
CachesAfterHook(model) ==
  IF sweep_fn \in {"evaluate_iia", "evaluate_iia_on_all_ablation_types"}
       /\ sweep_ablation = "resample"
  THEN LET data == IF model = "base" THEN BuiltHookFns.base ELSE BuiltHookFns.hyp
           act == NodeCache(node, 2)[node.name]
           out == regular_intervention_hook_fn(act, node.name, data, node.index)
       IN IF model = "base"
          THEN [sweep_caches EXCEPT
                  !.base_corrupted.content[node.name] = out.corrupted_cache[node.name]]
          ELSE [sweep_caches EXCEPT
                  !.hyp_corrupted.content[node.name] = out.corrupted_cache[node.name]]
  ELSE sweep_caches

is_qkv_granularity_hook(name) ==
  \/ Contains(<<"_", "q">>, name)
  \/ Contains(<<"_", "k">>, name)
  \/ Contains(<<"_", "v">>, name)

\* Lines 131-135: the nodes the loop skips.
NodeIsSkipped(n, granularity) ==
  \/ Contains(<<"mlp", "_", "in">>, n.name)
  \/ granularity # "qkv" /\ is_qkv_granularity_hook(n.name)

\* `with model.hooks(fwd_hooks)`: the hooks are added on entry ...
HooksOnEnter(installed, fwd_hooks) == installed \cup fwd_hooks

\* Mutant of HooksOnExit: the hooks stay installed when the block is left.
HooksOnExit_kept(installed, fwd_hooks) == installed

\* ... and removed when the block is left, by normal completion or by an exception.
HooksOnExit(installed, fwd_hooks) == installed \ fwd_hooks

\* The (hook name, hook function) pair of the current node.
NodePatch(n) == { [hook |-> n.name, head |-> n.index] }

\* The patches an Intervention installs on each model: one per patched hook.
InterventionPatches == { [hook |-> hook_embed, head |-> NoHead],
                         [hook |-> hook_mlp_out, head |-> NoHead] }

Forward(model, kind, installed) == [model |-> model, kind |-> kind, hooks_seen |-> installed]

NoForward == Forward("none", "none", {})

\* A model's architecture metadata.
Cfg(n_layers, n_heads, n_ctx, d_vocab) ==
  [n_layers |-> n_layers, n_heads |-> n_heads, n_ctx |-> n_ctx, d_vocab |-> d_vocab]

BaseCfg == Cfg(1, 1, 2, 2)

\* The hypothesis model has the base model's architecture or differs from it in one
\* of the four counts.
HypothesisCfgs ==
  { BaseCfg, Cfg(2, 1, 2, 2), Cfg(1, 2, 2, 2), Cfg(1, 1, 3, 2), Cfg(1, 1, 2, 3) }

\* A dataset object: its identity and the inputs it holds.
CaseDataset(id, inputs) == [id |-> id, inputs |-> inputs]

NoDataset == CaseDataset(0, <<>>)

DatasetInputs == { <<"a">>, <<"b">>, <<"a", "b">> }

\* The (clean, corrupted) arguments: one object passed twice, or two objects.
DatasetPairs ==
  { <<CaseDataset(1, x), CaseDataset(1, x)>> : x \in DatasetInputs } \cup
  { <<CaseDataset(1, x), CaseDataset(2, y)>> : x \in DatasetInputs, y \in DatasetInputs }

\* len(dataset).
DatasetLen(d) == Len(d.inputs)

\* clean_inputs != corrupted_inputs: datasets differ when the data they hold differs.
DatasetNe(d1, d2) == d1.inputs # d2.inputs

\* str(node): the key of a node's row.
NodeStr(n) == <<n.name, n.index>>

\* The ablation types in the order of the module-level list.
ablation_types == <<"zero", "mean", "resample">>

NoRows == [k \in {} |-> 0]

SweepIdle ==
  /\ sweep_fn = "none"
  /\ iia_granularity = "head"
  /\ sweep_ablation = "resample"
  /\ base_cfg = BaseCfg
  /\ hypothesis_cfg = BaseCfg
  /\ clean_inputs = NoDataset
  /\ corrupted_inputs = NoDataset
  /\ sweep_budget = 0
  /\ circuit = {}
  /\ ll_circuit = {}
  /\ categorical = TRUE
  /\ ablations_todo = <<>>
  /\ iia_evaluation_results = NoRows
  /\ cache_passes = 0
  /\ sweep_caches = NoCaches
  /\ nodes_todo = {}
  /\ node = NoNode
  /\ interventions_todo = 0
  /\ batches_todo = 0
  /\ base_model_hooks = {}
  /\ hypothesis_model_hooks = {}
  /\ last_forward = NoForward
  /\ results_by_node = {}
  /\ pending_exc = FALSE
  /\ sweep_pc = "idle"

\* A direct call of evaluate_iia.
InitEvaluateIIA ==
  /\ sweep_fn = "evaluate_iia"
  /\ iia_granularity \in {"head", "qkv"}
  /\ sweep_ablation \in AblationTypes \cup {"median"}
  /\ hypothesis_cfg = BaseCfg
  /\ clean_inputs = NoDataset /\ corrupted_inputs = NoDataset
  /\ sweep_budget = 0
  /\ circuit \in Circuits
  /\ ll_circuit = {}
  /\ categorical \in BOOLEAN
  /\ ablations_todo = <<>>
  /\ sweep_caches = ArgumentCaches(circuit)
  /\ nodes_todo = circuit
  /\ interventions_todo = 0
  /\ sweep_pc = "loop"

\* A call of evaluate_iia_on_all_ablation_types.
InitAllAblationTypes ==
  /\ sweep_fn = "evaluate_iia_on_all_ablation_types"
  /\ iia_granularity \in {"head", "qkv"}
  /\ sweep_ablation = "resample"
  /\ hypothesis_cfg \in HypothesisCfgs
  /\ clean_inputs = NoDataset /\ corrupted_inputs = NoDataset
  /\ sweep_budget = 0
  /\ circuit \in Circuits
  /\ ll_circuit \in { {}, {CircuitNode(hook_embed, NoHead), CircuitNode(hook_attn_q, 0)} }
  /\ categorical \in BOOLEAN
  /\ ablations_todo = ablation_types
  /\ sweep_caches = NoCaches
  /\ nodes_todo = {}
  /\ interventions_todo = 0
  /\ sweep_pc = "all_entry"

\* A call of get_resampling_ablation_loss.
InitResamplingAblationLoss ==
  /\ sweep_fn = "get_resampling_ablation_loss"
  /\ iia_granularity = "head"
  /\ sweep_ablation = "resample"
  /\ hypothesis_cfg \in HypothesisCfgs
  /\ \E pair \in DatasetPairs : clean_inputs = pair[1] /\ corrupted_inputs = pair[2]
  /\ sweep_budget \in -1..MaxInterventions
  /\ circuit = {}
  /\ ll_circuit = {}
  /\ categorical = TRUE
  /\ ablations_todo = <<>>
  /\ sweep_caches = NoCaches
  /\ nodes_todo = {}
  /\ interventions_todo \in (IF sweep_budget > 0 THEN 1..sweep_budget ELSE {0})
  /\ sweep_pc = "ral_entry"

\* Neither model has a hook installed when a sweep is entered.
SweepInit ==
  /\ \/ InitEvaluateIIA
     \/ InitAllAblationTypes
     \/ InitResamplingAblationLoss
  /\ base_cfg = BaseCfg
  /\ iia_evaluation_results = NoRows
  /\ cache_passes = 0
  /\ node = NoNode
  /\ batches_todo = 0
  /\ base_model_hooks = {}
  /\ hypothesis_model_hooks = {}
  /\ last_forward = NoForward
  /\ results_by_node = {}
  /\ pending_exc = FALSE

\* The sweep runs the loop of evaluate_iia.
InEvaluateIIA == sweep_fn \in {"evaluate_iia", "evaluate_iia_on_all_ablation_types"}

\* ---- evaluate_iia ----

\* Lines 126-135: the next node of all_nodes; skipped nodes `continue`.
IIANextNode ==
  /\ InEvaluateIIA /\ sweep_pc = "loop"
  /\ \E n \in nodes_todo :
       /\ nodes_todo' = nodes_todo \ {n}
       /\ IF NodeIsSkipped(n, iia_granularity)
          THEN UNCHANGED <<node, sweep_pc>>
          ELSE node' = n /\ sweep_pc' = "orig_base"
  /\ UNCHANGED <<sweepArgs, allState, interventions_todo, batches_todo, base_model_hooks,
                 hypothesis_model_hooks, last_forward, results_by_node, pending_exc>>
  /\ UNCHANGED sweepFrame

\* Line 233: all nodes are iterated; results_by_node goes to the caller.
IIAReturn ==
  /\ InEvaluateIIA /\ sweep_pc = "loop" /\ nodes_todo = {}
  /\ sweep_pc' = IF sweep_fn = "evaluate_iia" THEN "returned" ELSE "merge"
  /\ UNCHANGED <<sweepArgs, allState, nodes_todo, node, interventions_todo, batches_todo,
                 base_model_hooks, hypothesis_model_hooks, last_forward, results_by_node,
                 pending_exc>>
  /\ UNCHANGED sweepFrame

\* A forward pass outside any `with` block: it sees the hooks installed on its model
\* and either completes or raises, which ends the sweep.
UnpatchedForward(model, installed, next_pc) ==
  /\ last_forward' = Forward(model, "original", installed)
  /\ \E raises \in BOOLEAN : sweep_pc' = IF raises THEN "raised" ELSE next_pc
  /\ UNCHANGED <<sweepArgs, allState, nodes_todo, node, interventions_todo, batches_todo,
                 base_model_hooks, hypothesis_model_hooks, results_by_node, pending_exc>>
  /\ UNCHANGED sweepFrame

\* Line 137.
IIAOriginalBase ==
  /\ sweep_pc = "orig_base"
  /\ UnpatchedForward("base", base_model_hooks, "orig_hyp")

\* Line 138.
IIAOriginalHypothesis ==
  /\ sweep_pc = "orig_hyp"
  /\ UnpatchedForward("hypothesis", hypothesis_model_hooks, "build")

\* Lines 141-146: build_hook_fns is called with the node's hook name and the caches;
\* it installs nothing, and an exception it raises ends the sweep.
IIABuildHookFns ==
  /\ sweep_pc = "build"
  /\ LET fns == BuiltHookFns
     IN sweep_pc' = IF fns.raised THEN "raised" ELSE "enter_base"
  /\ UNCHANGED <<sweepArgs, allState, nodes_todo, node, interventions_todo, batches_todo,
                 base_model_hooks, hypothesis_model_hooks, last_forward, results_by_node,
                 pending_exc>>
  /\ UNCHANGED sweepFrame

\* Line 148: `with base_model.hooks([(hook_name, base_model_hook_fn)])` is entered.
IIAEnterBase ==
  /\ sweep_pc = "enter_base"
  /\ base_model_hooks' = HooksOnEnter(base_model_hooks, NodePatch(node))
  /\ sweep_pc' = "run_base"
  /\ UNCHANGED <<sweepArgs, allState, nodes_todo, node, interventions_todo, batches_todo,
                 hypothesis_model_hooks, last_forward, results_by_node, pending_exc>>
  /\ UNCHANGED sweepFrame

\* A forward pass inside a `with` block: it completes, or raises and the exception
\* starts to propagate out of the block.
PatchedForward(model, installed, exit_pc) ==
  /\ last_forward' = Forward(model, "intervened", installed)
  /\ \E raises \in BOOLEAN : pending_exc' = raises
  /\ sweep_pc' = exit_pc
  /\ sweep_caches' = CachesAfterHook(model)
  /\ UNCHANGED <<sweepArgs, sweep_ablation, ablations_todo, iia_evaluation_results,
                 cache_passes, nodes_todo, node, interventions_todo, batches_todo,
                 base_model_hooks, hypothesis_model_hooks, results_by_node>>
  /\ UNCHANGED sweepFrame

\* Line 149.
IIAIntervenedBase ==
  /\ sweep_pc = "run_base"
  /\ PatchedForward("base", base_model_hooks, "exit_base")

\* The block of line 148 is left.
IIAExitBase ==
  /\ sweep_pc = "exit_base"
  /\ base_model_hooks' = HooksOnExit(base_model_hooks, NodePatch(node))
  /\ sweep_pc' = IF pending_exc THEN "raised" ELSE "enter_hyp"
  /\ UNCHANGED <<sweepArgs, allState, nodes_todo, node, interventions_todo, batches_todo,
                 hypothesis_model_hooks, last_forward, results_by_node, pending_exc>>
  /\ UNCHANGED sweepFrame

\* Line 151.
IIAEnterHypothesis ==
  /\ sweep_pc = "enter_hyp"
  /\ hypothesis_model_hooks' = HooksOnEnter(hypothesis_model_hooks, NodePatch(node))
  /\ sweep_pc' = "run_hyp"
  /\ UNCHANGED <<sweepArgs, allState, nodes_todo, node, interventions_todo, batches_todo,
                 base_model_hooks, last_forward, results_by_node, pending_exc>>
  /\ UNCHANGED sweepFrame

\* Line 152.
IIAIntervenedHypothesis ==
  /\ sweep_pc = "run_hyp"
  /\ PatchedForward("hypothesis", hypothesis_model_hooks, "exit_hyp")

\* The block of line 151 is left; on normal completion lines 154-203 compute the
\* metrics and store them under the node.
IIAExitHypothesis ==
  /\ sweep_pc = "exit_hyp"
  /\ hypothesis_model_hooks' = HooksOnExit(hypothesis_model_hooks, NodePatch(node))
  /\ IF pending_exc
     THEN sweep_pc' = "raised" /\ UNCHANGED results_by_node
     ELSE sweep_pc' = "loop" /\ results_by_node' = results_by_node \cup {NodeStr(node)}
  /\ UNCHANGED <<sweepArgs, allState, nodes_todo, node, interventions_todo, batches_todo,
                 base_model_hooks, last_forward, pending_exc>>
  /\ UNCHANGED sweepFrame

\* ---- evaluate_iia_on_all_ablation_types ----

\* Lines 50-62: clean and corrupted data are drawn and both models run each with
\* run_with_cache; a pass that raises ends the call.
AllCaptureCaches ==
  /\ sweep_pc = "all_entry"
  /\ cache_passes' = cache_passes + 4
  /\ sweep_caches' = run_with_cache(sweep_caches, circuit)
  /\ last_forward' = Forward("hypothesis", "cache", hypothesis_model_hooks)
  /\ \E raises \in BOOLEAN : sweep_pc' = IF raises THEN "raised" ELSE "rows"
  /\ UNCHANGED <<sweepArgs, sweep_ablation, ablations_todo, iia_evaluation_results,
                 nodes_todo, node, interventions_todo, batches_todo, base_model_hooks,
                 hypothesis_model_hooks, results_by_node, pending_exc>>
  /\ UNCHANGED sweepFrame

\* Mutant of NewRow: no row is marked as in the circuit.
NewRow_neverInCircuit(key) == [in_circuit |-> FALSE, columns |-> {}]

\* The row lines 73-78 create for a key (a later node with the same key overwrites).
NewRow(key) ==
  LET n == CHOOSE c \in circuit : NodeStr(c) = key
  IN [in_circuit |-> n \in ll_circuit, columns |-> {}]

\* Lines 64-79: one row per node that is not skipped.
AllCreateRows ==
  /\ sweep_pc = "rows"
  /\ iia_evaluation_results' =
       [key \in {NodeStr(n) : n \in {c \in circuit : ~ NodeIsSkipped(c, iia_granularity)}}
          |-> NewRow(key)]
  /\ sweep_pc' = "next_ablation"
  /\ UNCHANGED <<sweepArgs, sweep_ablation, ablations_todo, cache_passes, sweep_caches,
                 nodes_todo, node, interventions_todo, batches_todo, base_model_hooks,
                 hypothesis_model_hooks, last_forward, results_by_node, pending_exc>>
  /\ UNCHANGED sweepFrame

\* Lines 81-94: evaluate_iia is called for the next ablation type; line 100 after the
\* last one.
AllNextAblation ==
  /\ sweep_pc = "next_ablation"
  /\ IF ablations_todo = <<>>
     THEN /\ sweep_pc' = "returned"
          /\ UNCHANGED <<sweep_ablation, ablations_todo, nodes_todo, results_by_node>>
     ELSE /\ sweep_ablation' = Head(ablations_todo)
          /\ ablations_todo' = Tail(ablations_todo)
          /\ nodes_todo' = circuit
          /\ results_by_node' = {}
          /\ sweep_pc' = "loop"
  /\ UNCHANGED <<sweepArgs, iia_evaluation_results, cache_passes, sweep_caches, node,
                 interventions_todo, batches_todo, base_model_hooks,
                 hypothesis_model_hooks, last_forward, pending_exc>>
  /\ UNCHANGED sweepFrame

\* Lines 174-224: the metrics evaluate_iia stores for a node.
MetricKeys(is_categorical, abl) ==
  IF is_categorical
  THEN {"kl_div", "accuracy", "base_model_effect", "hypothesis_model_effect"} \cup
       (IF abl = "resample" THEN {"effective_accuracy"} ELSE {})
  ELSE {"accuracy", "base_model_effect", "hypothesis_model_effect"}

\* The column f"{key}_{ablation_type}_ablation".
Column(key, abl) == <<key, abl, "ablation">>

\* Lines 96-98: every metric of every returned node is written into the node's row;
\* a key without row raises KeyError.
AllMerge ==
  /\ sweep_pc = "merge"
  /\ IF results_by_node \subseteq DOMAIN iia_evaluation_results
     THEN /\ iia_evaluation_results' =
               [key \in DOMAIN iia_evaluation_results |->
                  IF key \in results_by_node
                  THEN [iia_evaluation_results[key] EXCEPT !.columns =
                          @ \cup {Column(k, sweep_ablation) :
                                    k \in MetricKeys(categorical, sweep_ablation)}]
                  ELSE iia_evaluation_results[key]]
          /\ sweep_pc' = "next_ablation"
     ELSE /\ sweep_pc' = "raised"
          /\ UNCHANGED iia_evaluation_results
  /\ UNCHANGED <<sweepArgs, sweep_ablation, ablations_todo, cache_passes, sweep_caches,
                 nodes_todo, node, interventions_todo, batches_todo, base_model_hooks,
                 hypothesis_model_hooks, last_forward, results_by_node, pending_exc>>
  /\ UNCHANGED sweepFrame

\* ---- get_resampling_ablation_loss ----

\* Lines 33-36: both models have the same architecture.
SameArchitecture(cfg1, cfg2) ==
  /\ cfg1.n_layers = cfg2.n_layers
  /\ cfg1.n_heads = cfg2.n_heads
  /\ cfg1.n_ctx = cfg2.n_ctx
  /\ cfg1.d_vocab = cfg2.d_vocab

\* Mutant of ValidData: only the lengths are compared.
ValidData_lengthOnly(clean, corrupted, budget) ==
  DatasetLen(clean) = DatasetLen(corrupted)

\* Lines 38-42: the datasets have the same length and different data, and the budget
\* is positive.
ValidData(clean, corrupted, budget) ==
  /\ DatasetLen(clean) = DatasetLen(corrupted)
  /\ DatasetNe(clean, corrupted)
  /\ budget > 0

\* Lines 26-42: the assertions made before the first intervention is asked for.
RALCheckPreconditions ==
  /\ sweep_pc = "ral_entry"
  /\ sweep_pc' = IF /\ SameArchitecture(base_cfg, hypothesis_cfg)
                    /\ ValidData(clean_inputs, corrupted_inputs, sweep_budget)
                 THEN "loop" ELSE "raised"
  /\ UNCHANGED <<sweepArgs, allState, nodes_todo, node, interventions_todo, batches_todo,
                 base_model_hooks, hypothesis_model_hooks, last_forward, results_by_node,
                 pending_exc>>
  /\ UNCHANGED sweepFrame


\* Line 46: the next intervention, or the end of the sweep (line 64).
RALNextIntervention ==
  /\ sweep_fn = "get_resampling_ablation_loss" /\ sweep_pc = "loop"
  /\ IF interventions_todo = 0
     THEN sweep_pc' = "returned" /\ UNCHANGED <<interventions_todo, batches_todo>>
     ELSE /\ interventions_todo' = interventions_todo - 1
          /\ batches_todo' \in 0..MaxBatches
          /\ sweep_pc' = "batch"
  /\ UNCHANGED <<sweepArgs, allState, nodes_todo, node, base_model_hooks, hypothesis_model_hooks,
                 last_forward, results_by_node, pending_exc>>
  /\ UNCHANGED sweepFrame

\* Lines 50-55: the next batch; `with intervention.hooks(...)` is entered and patches
\* both models. After the last batch the loss is appended (line 62).
RALEnterBatch ==
  /\ sweep_pc = "batch"
  /\ IF batches_todo = 0
     THEN sweep_pc' = "loop"
          /\ UNCHANGED <<batches_todo, base_model_hooks, hypothesis_model_hooks>>
     ELSE /\ batches_todo' = batches_todo - 1
          /\ base_model_hooks' = HooksOnEnter(base_model_hooks, InterventionPatches)
          /\ hypothesis_model_hooks' = HooksOnEnter(hypothesis_model_hooks, InterventionPatches)
          /\ sweep_pc' = "ral_base"
  /\ UNCHANGED <<sweepArgs, allState, nodes_todo, node, interventions_todo, last_forward,
                 results_by_node, pending_exc>>
  /\ UNCHANGED sweepFrame

\* Line 56.
RALForwardBase ==
  /\ sweep_pc = "ral_base"
  /\ last_forward' = Forward("base", "intervened", base_model_hooks)
  /\ \E raises \in BOOLEAN :
       /\ pending_exc' = raises
       /\ sweep_pc' = IF raises THEN "ral_exit" ELSE "ral_hyp"
  /\ UNCHANGED <<sweepArgs, allState, nodes_todo, node, interventions_todo, batches_todo,
                 base_model_hooks, hypothesis_model_hooks, results_by_node>>
  /\ UNCHANGED sweepFrame

\* Line 57.
RALForwardHypothesis ==
  /\ sweep_pc = "ral_hyp"
  /\ PatchedForward("hypothesis", hypothesis_model_hooks, "ral_exit")

\* The block of line 55 is left.
RALExitBatch ==
  /\ sweep_pc = "ral_exit"
  /\ base_model_hooks' = HooksOnExit(base_model_hooks, InterventionPatches)
  /\ hypothesis_model_hooks' = HooksOnExit(hypothesis_model_hooks, InterventionPatches)
  /\ sweep_pc' = IF pending_exc THEN "raised" ELSE "batch"
  /\ UNCHANGED <<sweepArgs, allState, nodes_todo, node, interventions_todo, batches_todo,
                 last_forward, results_by_node, pending_exc>>
  /\ UNCHANGED sweepFrame

SweepNext ==
  \/ IIANextNode \/ IIAReturn \/ IIAOriginalBase \/ IIAOriginalHypothesis
  \/ IIABuildHookFns \/ IIAEnterBase \/ IIAIntervenedBase \/ IIAExitBase
  \/ IIAEnterHypothesis \/ IIAIntervenedHypothesis \/ IIAExitHypothesis
  \/ AllCaptureCaches \/ AllCreateRows \/ AllNextAblation \/ AllMerge
  \/ RALCheckPreconditions \/ RALNextIntervention \/ RALEnterBatch \/ RALForwardBase \/ RALForwardHypothesis
  \/ RALExitBatch

(***************************************************************************)
(* The metrics of evaluate_iia (categorical outputs)                       *)
(***************************************************************************)

\* Bound of the metrics model.
MaxExamples == 2   \* examples in the clean (and corrupted) data

\* A distribution over a vocabulary of two tokens, as numerators over ProbDen: what
\* log_softmax of the logits at one position (BOS removed) stands for.
ProbDen == 4
Distributions == { <<1, 3>>, <<3, 1>> }

\* One position per example after the BOS position is removed (lines 155-158).
ExampleLogits == { <<d>> : d \in Distributions }

\* t.argmax(logits, dim=-1): the first index holding the maximum.
ArgMax(d) ==
  CHOOSE i \in 1..Len(d) :
    \A j \in 1..Len(d) : d[j] <= d[i] /\ (j < i => d[j] < d[i])

Labels(batch_logits) ==
  [b \in 1..Len(batch_logits) |->
     [pos \in 1..Len(batch_logits[b]) |-> ArgMax(batch_logits[b][pos])]]

\* A float as an exact fraction; den = 0 is the NaN the mean of an empty tensor gives.
Frac(num, den) == [num |-> num, den |-> den]

IsNaN(x) == x.den = 0

InUnitInterval(x) == x.den > 0 /\ 0 <= x.num /\ x.num <= x.den

FracEq(x, y) == x.den > 0 /\ y.den > 0 /\ x.num * y.den = y.num * x.den

\* tensor.float().mean() of a sequence of booleans.
BoolMean(bools) == Frac(Cardinality({i \in 1..Len(bools) : bools[i]}), Len(bools))

\* (labels1 == labels2).all(dim=-1): per example, all positions agree.
AllPositionsEqual(labels1, labels2) ==
  [b \in 1..Len(labels1) |-> \A pos \in 1..Len(labels1[b]) : labels1[b][pos] = labels2[b][pos]]

\* (labels1 != labels2).float().mean(): the mean over every example and position.
EffectOf(labels1, labels2) ==
  LET cells == {<<b, pos>> \in (1..Len(labels1)) \X (1..1) : pos <= Len(labels1[b])}
  IN Frac(Cardinality({c \in cells : labels1[c[1]][c[2]] # labels2[c[1]][c[2]]}),
          Cardinality(cells))

\* tensor[mask]: the entries the boolean mask selects.
RECURSIVE MaskSelect(_, _)
MaskSelect(values, mask) ==
  IF values = <<>> THEN <<>>
  ELSE (IF Head(mask) THEN <<Head(values)>> ELSE <<>>) \o MaskSelect(Tail(values), Tail(mask))

RECURSIVE PowerProduct(_, _)
\* The product of base[i] ^ exponent[i].
PowerProduct(base, exponent) ==
  IF base = <<>> THEN 1
  ELSE Pow(Head(base), Head(exponent)) * PowerProduct(Tail(base), Tail(exponent))

\* kl_div(input, target, log_target=True).sum(-1).mean(): the sum over examples,
\* positions and tokens of p * (log p - log q), p the target (base) and q the input
\* (hypothesis) distribution. With p = a / ProbDen and q = b / ProbDen it equals
\* log(prod a^a / prod b^a) / (ProbDen * count), kept here as the two products.
KLDiv(hyp_logits, base_logits) ==
  LET a == Flatten(Flatten(base_logits))
      b == Flatten(Flatten(hyp_logits))
  IN [target_product |-> PowerProduct(a, a), input_product |-> PowerProduct(b, a)]

\* The KL divergence is >= 0: the logarithm of a ratio that is at least one.
KLNonNegative(kl) == kl.target_product >= kl.input_product

NoResult == [k \in {} |-> 0]

MetricsIdle ==
  /\ base_model_original_logits = <<>>
  /\ hypothesis_model_original_logits = <<>>
  /\ base_model_intervened_logits = <<>>
  /\ hypothesis_model_intervened_logits = <<>>
  /\ inputs_with_different_output = <<>>
  /\ metrics_ablation = "resample"
  /\ result_dict = NoResult
  /\ metrics_pc = "idle"

\* The four forward passes of an iteration have produced their logits.
MetricsInit ==
  /\ \E n \in 1..MaxExamples :
       /\ base_model_original_logits \in [1..n -> ExampleLogits]
       /\ hypothesis_model_original_logits \in [1..n -> ExampleLogits]
       /\ base_model_intervened_logits \in [1..n -> ExampleLogits]
       /\ hypothesis_model_intervened_logits \in [1..n -> ExampleLogits]
       /\ inputs_with_different_output \in [1..n -> BOOLEAN]
  /\ metrics_ablation \in AblationTypes
  /\ result_dict = NoResult
  /\ metrics_pc = "start"

\* Mutant of EffectiveAccuracy: the mean over all examples.
EffectiveAccuracy_unmasked(same, mask) == BoolMean(same)

\* Lines 201-202: the accuracy over the examples whose outputs differ.
EffectiveAccuracy(same, mask) == BoolMean(MaskSelect(same, mask))

\* Lines 161-203: the metrics of the categorical case.
CategoricalMetrics(base_orig, hyp_orig, base_int, hyp_int, mask, abl) ==
  LET base_original_labels == Labels(base_orig)
      hypothesis_original_labels == Labels(hyp_orig)
      base_intervened_labels == Labels(base_int)
      hypothesis_intervened_labels == Labels(hyp_int)
      same == AllPositionsEqual(base_intervened_labels, hypothesis_intervened_labels)
      common == [kl_div |-> KLDiv(hyp_int, base_int),
                 accuracy |-> BoolMean(same),
                 base_model_effect |-> EffectOf(base_original_labels, base_intervened_labels),
                 hypothesis_model_effect |->
                   EffectOf(hypothesis_original_labels, hypothesis_intervened_labels)]
  IN IF abl = "resample"
     THEN [k \in DOMAIN common \cup {"effective_accuracy"} |->
             IF k = "effective_accuracy" THEN EffectiveAccuracy(same, mask) ELSE common[k]]
     ELSE common

ComputeMetrics ==
  /\ metrics_pc = "start"
  /\ result_dict' = CategoricalMetrics(base_model_original_logits,
                                       hypothesis_model_original_logits,
                                       base_model_intervened_logits,
                                       hypothesis_model_intervened_logits,
                                       inputs_with_different_output, metrics_ablation)
  /\ metrics_pc' = "done"
  /\ UNCHANGED <<logits, inputs_with_different_output, metrics_ablation>>
  /\ UNCHANGED metricsFrame

MetricsNext == ComputeMetrics

\* C14: on a categorical task the reported accuracy is in [0, 1], for the resample
\* ablation the reported effective_accuracy is in [0, 1] for every pair of datasets
\* (also when no example's clean and corrupted outputs differ), and the KL divergence
\* is >= 0.
C14_MetricBounds ==
  metrics_pc = "done" =>
    /\ InUnitInterval(result_dict["accuracy"])
    /\ KLNonNegative(result_dict["kl_div"])
    /\ metrics_ablation = "resample" => InUnitInterval(result_dict["effective_accuracy"])

\* The part of C14 that holds: accuracy, KL divergence, and effective accuracy when
\* some example's outputs differ.
MetricBoundsWithDifferingExample ==
  metrics_pc = "done" =>
    /\ InUnitInterval(result_dict["accuracy"])
    /\ KLNonNegative(result_dict["kl_div"])
    /\ (/\ metrics_ablation = "resample"
        /\ \E b \in DOMAIN inputs_with_different_output : inputs_with_different_output[b])
       => InUnitInterval(result_dict["effective_accuracy"])

(***************************************************************************)
(* TracrCorrespondence                                                     *)
(***************************************************************************)

\* Bound of the correspondence model.
MaxSetItems == 1   \* item assignments after construction

\* hash values are integers modulo HashModulus (2^61 - 1 in CPython; a small prime
\* here, so that collisions between unequal nodes occur).
HashModulus == 7

\* The unit of a location: a head number, None, or a TorchIndex.
IntUnit(n) == [type |-> "int", value |-> <<n>>]
NoneUnit == [type |-> "None", value |-> <<>>]
IndexUnit(ix) == [type |-> "TorchIndex", value |-> ix]

\* A location (layer, attn_or_mlp, unit).
Loc(layer, attn_or_mlp, unit) == [layer |-> layer, attn_or_mlp |-> attn_or_mlp, unit |-> unit]

\* The high-level locations of a compiled program.
HLLocations ==
  { Loc("0", "attn", IntUnit("1")), Loc("1", "mlp", NoneUnit),
    Loc("1", "attn", IndexUnit(<<":", ":", "0", ":">>)) }

\* The low-level locations a realization map lists.
LLLocations == { Loc("0", "attn", IntUnit("0")), Loc("0", "mlp", NoneUnit) }

BasisDirection(name, value) == [name |-> name, value |-> value]

BasisDirections ==
  { BasisDirection("x", "1"), BasisDirection("x", "2"), BasisDirection("y", "None") }

\* hook_name(loc, style) fails.
HookNameRaises(loc, style) ==
  \/ loc.attn_or_mlp \notin {"attn", "mlp"}
  \/ style \notin {"tl", "wrapper"}

\* str(loc), in tokens.
LocStr(loc) == <<"(", loc.layer, loc.attn_or_mlp>> \o loc.unit.value \o <<")">>

\* hook_name(loc, style), in tokens.
make_hook_name(loc, style) ==
  IF style = "tl"
  THEN <<"blocks", loc.layer, loc.attn_or_mlp,
         IF loc.attn_or_mlp = "attn" THEN "hook_result" ELSE "hook_post">>
  ELSE <<"mod", "blocks">> \o LocStr(loc) \o <<"mod", loc.attn_or_mlp, "hook_point">>

\* idx(loc) fails.
IdxRaises(loc) ==
  /\ loc.unit.type # "TorchIndex"
  /\ \/ loc.attn_or_mlp \notin {"attn", "mlp"}
     \/ loc.attn_or_mlp = "mlp" /\ loc.unit.type # "None"

\* The index idx(loc): the unit itself when it is a TorchIndex, Ix[:, :, unit, :] for attn,
\* Ix[[None]] for mlp.
make_idx(loc) ==
  IF loc.unit.type = "TorchIndex" THEN loc.unit.value
  ELSE IF loc.attn_or_mlp = "attn"
       THEN <<":", ":", IF loc.unit.type = "None" THEN "None" ELSE loc.unit.value[1], ":">>
       ELSE <<"[None]">>

\* TracrHLNode(name, label, num_classes, idx).
MakeTracrHLNode(name, label, num_classes, index) ==
  [type |-> "TracrHLNode", name |-> name, label |-> label, num_classes |-> num_classes,
   index |-> index]

\* mp.LLNode(name, index).
LLNode(name, index) == [type |-> "LLNode", name |-> name, index |-> index]

\* A Python set, and a value that is not a set.
PySet(elems) == [type |-> "set", elems |-> elems]
PyList(elems) == [type |-> "list", elems |-> elems]

\* Lines 83-87 and 95-99: the key built for an entry.
KeyOf(basis_dir, hl_loc, style) ==
  MakeTracrHLNode(make_hook_name(hl_loc, style), basis_dir.name, 0, make_idx(hl_loc))

\* Mutant of IdentityValue: the low-level name is built in the "tl" style.
IdentityValue_tlStyle(hl_loc, style) ==
  PySet({ LLNode(make_hook_name(hl_loc, "tl"), make_idx(hl_loc)) })

\* Line 88: the value of an entry of the identity correspondence.
IdentityValue(hl_loc, style) ==
  PySet({ LLNode(make_hook_name(hl_loc, style), make_idx(hl_loc)) })

\* Mutant of RealizationValue: only one of the listed locations is kept.
RealizationValue_oneLocation(ll_locs) ==
  IF ll_locs = {}
  THEN PySet({})
  ELSE LET ll_loc == CHOOSE l \in ll_locs : TRUE
       IN PySet({ LLNode(make_hook_name(ll_loc, "tl"), make_idx(ll_loc)) })

\* Lines 100-103: the value of an entry resolved against the realization map.
RealizationValue(ll_locs) ==
  PySet({ LLNode(make_hook_name(ll_loc, "tl"), make_idx(ll_loc)) : ll_loc \in ll_locs })

\* Line 102: tracr_ll_corr[basis_dir.name, basis_dir.value] raises KeyError.
LookupRaises(ll_corr, basis_dir) == basis_dir \notin DOMAIN ll_corr.map

\* Position of a key in an ordered dict, 0 when absent.
\* hash(str): a function of the characters (here of the tokens' lengths).
RECURSIVE StrHash(_)
StrHash(tokens) ==
  IF tokens = <<>> THEN 0 ELSE (Len(Head(tokens)) + 31 * StrHash(Tail(tokens))) % HashModulus

\* Mutant of TracrHLNode__eq__: the label is not compared.
TracrHLNode__eq__noLabel(self, other) ==
  /\ self.name = other.name
  /\ self.num_classes = other.num_classes
  /\ self.index = other.index

\* Lines 34-41: TracrHLNode.__eq__ against another TracrHLNode.
TracrHLNode__eq__(self, other) ==
  /\ self.name = other.name
  /\ self.label = other.label
  /\ self.num_classes = other.num_classes
  /\ self.index = other.index

\* Lines 28-29: TracrHLNode.__hash__, the hash of the name plus the hash of the label.
TracrHLNode__hash__(self) == (StrHash(self.name) + StrHash(<<self.label>>)) % HashModulus

\* The key comparison of a dict lookup: equal hashes, then __eq__.
KeyMatches(stored, key) ==
  IF stored.type = "TracrHLNode" /\ key.type = "TracrHLNode"
  THEN /\ TracrHLNode__hash__(stored) = TracrHLNode__hash__(key)
       /\ TracrHLNode__eq__(stored, key)
  ELSE stored = key

KeyIndex(d, key) ==
  IF \E i \in 1..Len(d) : KeyMatches(d[i][1], key)
  THEN CHOOSE i \in 1..Len(d) : KeyMatches(d[i][1], key)
  ELSE 0

\* dict.__setitem__: an equal key keeps its place and gets the new value.
DictSet(d, key, value) ==
  IF KeyIndex(d, key) = 0 THEN Append(d, <<key, value>>)
  ELSE [d EXCEPT ![KeyIndex(d, key)] = <<d[KeyIndex(d, key)][1], value>>]

RECURSIVE DictFromItems(_)
\* The dict a comprehension or dict(items) builds.
DictFromItems(items) ==
  IF items = <<>> THEN <<>>
  ELSE LET last == items[Len(items)]
       IN DictSet(DictFromItems(SubSeq(items, 1, Len(items) - 1)), last[1], last[2])

\* The entries of tracr_hl_corr in iteration order: distinct basis directions.
HLCorrs ==
  UNION { { e \in [1..n -> BasisDirections \X HLLocations] :
              \A i, j \in 1..n : i # j => e[i][1] # e[j][1] } : n \in 0..MaxKeys }

NoLLCorr == [none |-> TRUE, map |-> <<>>]

LLCorr(map) == [none |-> FALSE, map |-> map]

\* The realization maps: None, a map listing every basis direction, and a map without
\* entry for ("y", None) that lists no location for ("x", 2).
LLCorrs ==
  { NoLLCorr,
    LLCorr([d \in BasisDirections |->
              IF d.name = "x" THEN LLLocations ELSE {Loc("0", "mlp", NoneUnit)}]),
    LLCorr([d \in {x \in BasisDirections : x.name = "x"} |->
              IF d.value = "1" THEN {Loc("0", "attn", IntUnit("0"))} ELSE {}]) }

\* Lines 79-106: make_hl_ll_corr fails.
MakeRaises(hl_corr, ll_corr, style) ==
  \E i \in 1..Len(hl_corr) :
    \/ HookNameRaises(hl_corr[i][2], style)
    \/ IdxRaises(hl_corr[i][2])
    \/ /\ ~ ll_corr.none
       /\ \/ LookupRaises(ll_corr, hl_corr[i][1])
          \/ \E ll_loc \in ll_corr.map[hl_corr[i][1]] :
               HookNameRaises(ll_loc, "tl") \/ IdxRaises(ll_loc)

\* Lines 79-106: the dict make_hl_ll_corr builds.
make_hl_ll_corr(hl_corr, ll_corr, style) ==
  DictFromItems([i \in 1..Len(hl_corr) |->
                   <<KeyOf(hl_corr[i][1], hl_corr[i][2], style),
                     IF ll_corr.none THEN IdentityValue(hl_corr[i][2], style)
                     ELSE RealizationValue(ll_corr.map[hl_corr[i][1]])>>])

\* The keys and values a caller may assign: a TracrHLNode or a string as key, a set of
\* LLNodes, a set holding a string, or a list as value.
AssignableKeys ==
  { KeyOf(BasisDirection("y", "None"), Loc("1", "mlp", NoneUnit), "tl"),
    [type |-> "str", name |-> <<"blocks">>, label |-> "", num_classes |-> 0, index |-> <<>>] }

AssignableValues ==
  { RealizationValue(LLLocations),
    PySet({[type |-> "str", name |-> <<"blocks">>, index |-> <<>>]}),
    PyList({LLNode(<<"blocks">>, <<"[None]">>)}) }

\* pickle.dump(self): the items in order, each key by its fields and each set by its
\* elements in the order given.
Pickle(d, orders) ==
  [i \in 1..Len(d) |->
     [key_state |-> <<d[i][1].type, d[i][1].name, d[i][1].label, d[i][1].num_classes,
                      d[i][1].index>>,
      value_type |-> d[i][2].type,
      value_items |-> orders[i]]]

\* Mutant of UnpickleKey: the label is not restored.
UnpickleKey_noLabel(key_state) ==
  [type |-> key_state[1], name |-> key_state[2], label |-> "",
   num_classes |-> key_state[4], index |-> key_state[5]]

\* The key object pickle.load rebuilds from its state.
UnpickleKey(key_state) ==
  [type |-> key_state[1], name |-> key_state[2], label |-> key_state[3],
   num_classes |-> key_state[4], index |-> key_state[5]]

\* cls(pickle.load(file)): the dict rebuilt item by item.
Unpickle(file) ==
  DictFromItems([i \in 1..Len(file) |->
                   <<UnpickleKey(file[i].key_state),
                     [type |-> file[i].value_type, elems |-> Range(file[i].value_items)]>>])

CorrIdle ==
  /\ tracr_hl_corr = <<>>
  /\ tracr_ll_corr = NoLLCorr
  /\ hook_name_style = "tl"
  /\ tracr_corr = <<>>
  /\ setitems = 0
  /\ corr_file = <<>>
  /\ loaded_corr = <<>>
  /\ corr_pc = "idle"

CorrInit ==
  /\ tracr_hl_corr \in HLCorrs
  /\ tracr_ll_corr \in LLCorrs
  /\ hook_name_style \in {"tl", "wrapper"}
  /\ tracr_corr = <<>>
  /\ setitems = 0
  /\ corr_file = <<>>
  /\ loaded_corr = <<>>
  /\ corr_pc = "start"

\* Lines 56-106: make_hl_ll_corr returns the correspondence or raises.
MakeHlLlCorr ==
  /\ corr_pc = "start"
  /\ IF MakeRaises(tracr_hl_corr, tracr_ll_corr, hook_name_style)
     THEN corr_pc' = "raised" /\ UNCHANGED tracr_corr
     ELSE /\ corr_pc' = "made"
          /\ tracr_corr' = make_hl_ll_corr(tracr_hl_corr, tracr_ll_corr, hook_name_style)
  /\ UNCHANGED <<corrArgs, setitems, corr_file, loaded_corr>>
  /\ UNCHANGED corrFrame

\* tracr_corr[key] = value: dict.__setitem__, which TracrCorrespondence does not override
\* (lines 48-53 override __setattr__).
SetItem ==
  /\ corr_pc = "made"
  /\ setitems < MaxSetItems
  /\ \E key \in AssignableKeys, value \in AssignableValues :
       tracr_corr' = DictSet(tracr_corr, key, value)
  /\ setitems' = setitems + 1
  /\ UNCHANGED <<corrArgs, corr_file, loaded_corr, corr_pc>>
  /\ UNCHANGED corrFrame

\* The iteration orders of the values of a dict: one enumeration of the elements of
\* each value, in the order of the items.
RECURSIVE IterationOrders(_)
IterationOrders(d) ==
  IF d = <<>> THEN {<<>>}
  ELSE { <<first>> \o rest : first \in Enumerations(d[1][2].elems),
                             rest \in IterationOrders(Tail(d)) }

\* Lines 114-115: save pickles the correspondence; a set is written in its iteration
\* order.
Save ==
  /\ corr_pc = "made"
  /\ \E orders \in IterationOrders(tracr_corr) : corr_file' = Pickle(tracr_corr, orders)
  /\ corr_pc' = "saved"
  /\ UNCHANGED <<corrArgs, tracr_corr, setitems, loaded_corr>>
  /\ UNCHANGED corrFrame

\* Lines 117-119: load.
Load ==
  /\ corr_pc = "saved"
  /\ loaded_corr' = Unpickle(corr_file)
  /\ corr_pc' = "loaded"
  /\ UNCHANGED <<corrArgs, tracr_corr, setitems, corr_file>>
  /\ UNCHANGED corrFrame

CorrNext == MakeHlLlCorr \/ SetItem \/ Save \/ Load

(***************************************************************************)
(* Claims about the sweeps                                                 *)
(***************************************************************************)

\* The positions inside a scoped block of each model.
InBaseBlock == sweep_pc \in {"run_base", "exit_base", "ral_base", "ral_hyp", "ral_exit"}
InHypothesisBlock == sweep_pc \in {"run_hyp", "exit_hyp", "ral_base", "ral_hyp", "ral_exit"}

\* C7: a patch is installed on a model only inside its own scoped block: at the start of
\* every iteration and after the sweep has ended, by returning or by an exception raised
\* in a forward pass, neither model has a patch installed, and no unpatched ("original")
\* forward pass sees a patch.
C7_PatchesScopedToIteration ==
  /\ ~ InBaseBlock => base_model_hooks = {}
  /\ ~ InHypothesisBlock => hypothesis_model_hooks = {}
  /\ InEvaluateIIA =>
       /\ base_model_hooks \subseteq NodePatch(node)
       /\ hypothesis_model_hooks \subseteq NodePatch(node)
  /\ last_forward.kind = "original" => last_forward.hooks_seen = {}

\* Witness of C7: an original forward pass of a later iteration has run after an earlier
\* iteration's patched passes completed.
C7_Witness ==
  /\ sweep_pc = "orig_hyp"
  /\ results_by_node # {}
  /\ last_forward = Forward("base", "original", {})


\* The ablation types a caller can pass that build_hook_fns does not know.
UnknownAblationTypes == {"median"}

\* build_hook_fns raises for every unknown ablation type and returns no hook function.
BuildHookFnsRejectsUnknown ==
  \A abl \in UnknownAblationTypes, n \in FullCircuitNodes :
    LET fns == build_hook_fns(n.name, NodeCache(n, 1), NodeCache(n, 1),
                              NodeCache(n, 0), NodeCache(n, 0), abl)
    IN fns.raised /\ DOMAIN fns.base = {} /\ DOMAIN fns.hyp = {}

NoInterventionYet ==
  /\ last_forward.kind # "intervened"
  /\ base_model_hooks = {} /\ hypothesis_model_hooks = {}
  /\ sweep_pc \notin {"enter_base", "run_base", "exit_base", "enter_hyp", "run_hyp",
                      "exit_hyp", "batch", "ral_base", "ral_hyp", "ral_exit", "merge",
                      "returned"}
  /\ results_by_node = {}

\* C12: get_resampling_ablation_loss and evaluate_iia_on_all_ablation_types fail before
\* the first intervention is built or applied whenever the two networks differ in
\* number of layers, number of heads, context length or vocabulary size.
C12_ArchitectureMismatchFailsFirst ==
  (/\ sweep_fn \in {"get_resampling_ablation_loss", "evaluate_iia_on_all_ablation_types"}
   /\ ~ SameArchitecture(base_cfg, hypothesis_cfg))
  => NoInterventionYet

\* The part of C12 about get_resampling_ablation_loss alone.
ArchitectureCheckedByLoss ==
  (sweep_fn = "get_resampling_ablation_loss" /\ ~ SameArchitecture(base_cfg, hypothesis_cfg))
  => NoInterventionYet /\ sweep_pc \in {"ral_entry", "raised"}

\* C13: get_resampling_ablation_loss performs no intervention and returns no loss when
\* the clean and corrupted datasets differ in count, hold identical data (also as two
\* distinct dataset objects), or max_interventions <= 0: it fails before
\* get_interventions is iterated.
C13_DataMismatchFailsFirst ==
  (/\ sweep_fn = "get_resampling_ablation_loss"
   /\ \/ DatasetLen(clean_inputs) # DatasetLen(corrupted_inputs)
      \/ clean_inputs.inputs = corrupted_inputs.inputs
      \/ sweep_budget <= 0)
  => NoInterventionYet /\ sweep_pc \in {"ral_entry", "raised"}

\* Witness of C13: the call has failed for two distinct dataset objects that hold the
\* same data, the architectures being equal and the budget positive.
C13_Witness ==
  /\ sweep_fn = "get_resampling_ablation_loss"
  /\ sweep_pc = "raised"
  /\ clean_inputs.id # corrupted_inputs.id
  /\ clean_inputs.inputs = corrupted_inputs.inputs
  /\ SameArchitecture(base_cfg, hypothesis_cfg)
  /\ sweep_budget > 0
  /\ NoInterventionYet

\* Base and hypothesis are the same network: the caches of the two are the same.
IdenticalNetworks ==
  /\ base_model_clean_cache = hypothesis_model_clean_cache
  /\ base_model_corrupted_cache = hypothesis_model_corrupted_cache

\* The sets of logits the four forward passes of an iteration can produce.
BatchLogits == UNION { [1..n -> ExampleLogits] : n \in 1..MaxExamples }

\* What evaluate_iia reports when the two networks' original outputs are the same and
\* their intervened outputs are the same: accuracy 1.0 and equal effects.
IdenticalOutputsMetrics ==
  \A orig \in BatchLogits, abl \in AblationTypes :
    \A int \in [DOMAIN orig -> ExampleLogits], mask \in [DOMAIN orig -> BOOLEAN] :
      LET r == CategoricalMetrics(orig, orig, int, int, mask, abl)
      IN /\ FracEq(r["accuracy"], Frac(1, 1))
         /\ r["base_model_effect"] = r["hypothesis_model_effect"]

EligibleLocations ==
  { n \in circuit :
      /\ ~ Contains(<<"mlp", "_", "in">>, n.name)
      /\ iia_granularity = "qkv" \/ ~ is_qkv_granularity_hook(n.name) }

\* The columns a complete row carries.
AllColumns ==
  { Column(k, ablation_types[i]) :
      <<k, i>> \in { <<k, i>> \in {"kl_div", "accuracy", "base_model_effect",
                                  "hypothesis_model_effect", "effective_accuracy"}
                                  \X (1..Len(ablation_types)) :
                      k \in MetricKeys(categorical, ablation_types[i]) } }

\* C16: evaluate_iia_on_all_ablation_types returns exactly one row per eligible
\* location, keyed by the location's string: the keys evaluate_iia returns for each
\* ablation type are the keys of the rows created beforehand, distinct eligible
\* locations do not share a row, and each row carries in_circuit = membership in the
\* ground-truth circuit and one column per metric and ablation type.
C16_OneRowPerEligibleLocation ==
  sweep_fn = "evaluate_iia_on_all_ablation_types" =>
    /\ sweep_pc = "merge" => results_by_node = DOMAIN iia_evaluation_results
    /\ sweep_pc \in {"next_ablation", "loop", "merge", "returned"} =>
         /\ DOMAIN iia_evaluation_results = {NodeStr(n) : n \in EligibleLocations}
         /\ Cardinality(DOMAIN iia_evaluation_results) = Cardinality(EligibleLocations)
         /\ \A n \in EligibleLocations :
              iia_evaluation_results[NodeStr(n)].in_circuit = (n \in ll_circuit)
    /\ sweep_pc = "returned" =>
         \A key \in DOMAIN iia_evaluation_results :
           iia_evaluation_results[key].columns = AllColumns

\* Witness of C16: the call has returned rows of which one is in the circuit and one
\* is not.
C16_Witness ==
  /\ sweep_fn = "evaluate_iia_on_all_ablation_types"
  /\ sweep_pc = "returned"
  /\ \E k1, k2 \in DOMAIN iia_evaluation_results :
       /\ iia_evaluation_results[k1].in_circuit
       /\ ~ iia_evaluation_results[k2].in_circuit
       /\ iia_evaluation_results[k1].columns = AllColumns

\* The sweep is a call of evaluate_iia_on_all_ablation_types.
InAllAblationTypes == sweep_fn = "evaluate_iia_on_all_ablation_types"

\* Each of the four caches was captured exactly once.
EachCapturedOnce ==
  /\ sweep_caches.base_clean.captures = 1
  /\ sweep_caches.hyp_clean.captures = 1
  /\ sweep_caches.base_corrupted.captures = 1
  /\ sweep_caches.hyp_corrupted.captures = 1

\* C25: in evaluate_iia_on_all_ablation_types each of the four caches is captured
\* exactly once, before the first patch function is built, and from then on no step of
\* the sweep (no location, no ablation type) captures a cache again or changes the
\* content of one: build_hook_fns reads the same four caches every time.
C25_CachesCapturedOnce ==
  /\ [](InAllAblationTypes =>
          /\ sweep_pc \notin {"all_entry", "raised"} => EachCapturedOnce /\ cache_passes = 4
          /\ sweep_pc = "all_entry" => sweep_caches = NoCaches)
  /\ [][(InAllAblationTypes /\ sweep_pc # "all_entry") => sweep_caches' = sweep_caches]_vars

\* Witness of C25: the sweep over the full circuit has returned, after resample patches
\* with and without a head index were applied.
C25_Witness ==
  /\ InAllAblationTypes
  /\ sweep_pc = "returned"
  /\ circuit = FullCircuitNodes
  /\ EachCapturedOnce
  /\ \E key \in DOMAIN iia_evaluation_results :
       iia_evaluation_results[key].columns # {}

(***************************************************************************)
(* Claims about TracrCorrespondence                                        *)
(***************************************************************************)

\* The correspondence as make_hl_ll_corr returned it.
JustMade == corr_pc = "made" /\ setitems = 0

\* The value stored under a key.
ValueAt(d, key) == d[KeyIndex(d, key)][2]

\* The keys of a dict.
Keys(d) == { d[i][1] : i \in 1..Len(d) }

\* The key an entry of tracr_hl_corr is stored under.
EntryKey(i) ==
  [type |-> "TracrHLNode",
   name |-> make_hook_name(tracr_hl_corr[i][2], hook_name_style),
   label |-> tracr_hl_corr[i][1].name,
   num_classes |-> 0,
   index |-> make_idx(tracr_hl_corr[i][2])]

\* C17: called with tracr_ll_corr = None, make_hl_ll_corr does not fail and returns a
\* correspondence in which every high-level entry maps to a set of exactly one LLNode
\* whose hook name and index are the name and index of the entry's own key, both
\* computed from the entry's high-level location alone.
C17_IdentityFallback ==
  tracr_ll_corr.none =>
    /\ corr_pc # "raised"
    /\ JustMade =>
         /\ Keys(tracr_corr) = { EntryKey(i) : i \in 1..Len(tracr_hl_corr) }
         /\ \A i \in 1..Len(tracr_hl_corr) :
              LET value == ValueAt(tracr_corr, EntryKey(i))
              IN /\ value.type = "set"
                 /\ Cardinality(value.elems) = 1
                 /\ \A ll \in value.elems :
                      /\ ll.type = "LLNode"
                      /\ ll.name = EntryKey(i).name
                      /\ ll.index = EntryKey(i).index

\* Witness of C17: an identity correspondence of two entries in the "wrapper" style.
C17_Witness ==
  /\ tracr_ll_corr.none
  /\ JustMade
  /\ Len(tracr_corr) = 2
  /\ hook_name_style = "wrapper"

\* The LLNodes of the low-level locations the map lists for a basis direction.
ListedLLNodes(basis_dir) ==
  { [type |-> "LLNode", name |-> make_hook_name(ll_loc, "tl"), index |-> make_idx(ll_loc)] :
      ll_loc \in tracr_ll_corr.map[basis_dir] }

\* The last entry of tracr_hl_corr stored under a key (a dict keeps the last value
\* given for a key).
LastEntryOf(key) ==
  CHOOSE i \in 1..Len(tracr_hl_corr) :
    /\ EntryKey(i) = key
    /\ \A j \in (i + 1)..Len(tracr_hl_corr) : EntryKey(j) # key

C19_KeysAndValuesWellTyped ==
  corr_pc \in {"made", "saved", "loaded"} =>
    \A i \in 1..Len(tracr_corr) :
      /\ tracr_corr[i][1].type = "TracrHLNode"
      /\ tracr_corr[i][2].type = "set"
      /\ tracr_corr[i][2].elems # {}
      /\ \A ll \in tracr_corr[i][2].elems : ll.type = "LLNode"

\* Equality of two dicts: the same keys, and equal values under each key.
DictEq(d1, d2) ==
  /\ Keys(d1) = Keys(d2)
  /\ \A key \in Keys(d1) : ValueAt(d1, key) = ValueAt(d2, key)

TracrHLNodes ==
  LET held == { k \in Keys(tracr_corr) : k.type = "TracrHLNode" }
                \cup { EntryKey(i) : i \in 1..Len(tracr_hl_corr) }
  IN held \cup { [k EXCEPT !.num_classes = 1 - @] : k \in held }

\* C21: two TracrHLNodes are equal if and only if their name, label, num_classes and
\* index are all equal, and equal nodes have equal hashes; two entries with the same
\* location (hence the same name, num_classes and index) but different labels are
\* stored under two distinct keys of the correspondence made from them.
C21_EqualityAndHash ==
  /\ \A a, b \in TracrHLNodes :
       /\ TracrHLNode__eq__(a, b) <=>
            (a.name = b.name /\ a.label = b.label /\ a.num_classes = b.num_classes
               /\ a.index = b.index)
       /\ TracrHLNode__eq__(a, b) => TracrHLNode__hash__(a) = TracrHLNode__hash__(b)
  /\ JustMade =>
       \A i, j \in 1..Len(tracr_hl_corr) :
         (tracr_hl_corr[i][2] = tracr_hl_corr[j][2]
            /\ tracr_hl_corr[i][1].name # tracr_hl_corr[j][1].name)
           => /\ KeyIndex(tracr_corr, EntryKey(i)) # 0
              /\ KeyIndex(tracr_corr, EntryKey(j)) # 0
              /\ KeyIndex(tracr_corr, EntryKey(i)) # KeyIndex(tracr_corr, EntryKey(j))

\* Witness of C21: a correspondence made from two entries at one location with
\* different labels, whose keys have the same hash.
C21_Witness ==
  /\ JustMade
  /\ Len(tracr_hl_corr) = 2
  /\ tracr_hl_corr[1][2] = tracr_hl_corr[2][2]
  /\ tracr_hl_corr[1][1].name # tracr_hl_corr[2][1].name
  /\ Len(tracr_corr) = 2
  /\ TracrHLNode__hash__(tracr_corr[1][1]) = TracrHLNode__hash__(tracr_corr[2][1])

(***************************************************************************)
(* The address helpers hook_name and idx                                   *)
(***************************************************************************)

\* Every location a caller may pass: any layer, a kind that may be neither attn nor
\* mlp, and a head number, None or a TorchIndex as unit.
AllLocations ==
  { Loc(layer, attn_or_mlp, unit) :
      layer \in {"0", "1"}, attn_or_mlp \in {"attn", "mlp", "embed"},
      unit \in {IntUnit("0"), IntUnit("1"), NoneUnit, IndexUnit(<<":", ":", "0", ":">>)} }

\* The outcome of a call: not made yet, a returned value, or an exception.
Pending == [state |-> "pending", value |-> <<>>]
Returned(value) == [state |-> "returned", value |-> value]
Raised == [state |-> "raised", value |-> <<>>]

AddrIdle ==
  /\ addr_loc = Loc("0", "attn", NoneUnit)
  /\ addr_style = "tl"
  /\ addr_hook_name = Pending
  /\ addr_idx = Pending

AddrInit ==
  /\ addr_loc \in AllLocations
  /\ addr_style \in {"tl", "wrapper"}
  /\ addr_hook_name = Pending
  /\ addr_idx = Pending

\* Lines 59-67: hook_name(loc, style).
AddrHookName ==
  /\ addr_hook_name = Pending
  /\ addr_hook_name' = IF HookNameRaises(addr_loc, addr_style) THEN Raised
                       ELSE Returned(make_hook_name(addr_loc, addr_style))
  /\ UNCHANGED <<addr_loc, addr_style, addr_idx>>
  /\ UNCHANGED addrFrame

\* Lines 69-77: idx(loc).
AddrIdx ==
  /\ addr_idx = Pending
  /\ addr_idx' = IF IdxRaises(addr_loc) THEN Raised ELSE Returned(make_idx(addr_loc))
  /\ UNCHANGED <<addr_loc, addr_style, addr_hook_name>>
  /\ UNCHANGED addrFrame

AddrNext == AddrHookName \/ AddrIdx

\* The "no restriction" index Ix[[None]].
NoRestriction == <<"[None]">>

\* C22, attention part: attn with a specific head gives the index (:, :, head, :).
AttnHeadIndexed ==
  (addr_loc.attn_or_mlp = "attn" /\ addr_loc.unit.type = "int" /\ addr_idx # Pending)
    => addr_idx = Returned(<<":", ":", addr_loc.unit.value[1], ":">>)

\* C22, error part: a kind that is neither attn nor mlp fails in hook_name.
HookNameRejectsUnknownKind ==
  (addr_loc.attn_or_mlp \notin {"attn", "mlp"} /\ addr_hook_name # Pending)
    => addr_hook_name = Raised

\* C22: attn with a specific head gives the index (:, :, head, :); mlp, or attn with an
\* unspecified unit, gives the "no restriction" index; a kind that is neither attn nor
\* mlp fails in both hook_name and idx, whatever the unit is.
C22_AddressHelpers ==
  /\ AttnHeadIndexed
  /\ HookNameRejectsUnknownKind
  /\ (addr_loc.attn_or_mlp \in {"attn", "mlp"} /\ addr_idx # Pending
        /\ (addr_loc.attn_or_mlp = "mlp" \/ addr_loc.unit.type = "None"))
       => addr_idx = Returned(NoRestriction)
  /\ (addr_loc.attn_or_mlp \notin {"attn", "mlp"} /\ addr_idx # Pending)
       => addr_idx = Raised

(***************************************************************************)
(* get_unique_data                                                         *)
(***************************************************************************)

\* Bounds of the unique-data model.
MaxTotalLen == 2    \* largest total_len
MaxCap == 3         \* largest max_len

\* The input sequences the case can generate, numbered in the order of their strings.
CaseInputs == {1, 2, 3}

\* The correct output of an input (two inputs share an output).
CorrectOutput(input) == input % 2

\* case.get_clean_data(count = n): n inputs sampled with replacement.
CleanData(n) == [1..n -> CaseInputs]

\* np.unique(strings): the distinct values in sorted order.
RECURSIVE SortedSeq(_)
SortedSeq(S) ==
  IF S = {} THEN <<>>
  ELSE LET least == CHOOSE x \in S : \A y \in S : x <= y
       IN <<least>> \o SortedSeq(S \ {least})

\* np.where(idxs == i)[0][0]: the first position holding a value.
FirstIndexOf(xs, value) == CHOOSE i \in 1..Len(xs) : xs[i] = value /\ \A k \in 1..(i - 1) : xs[k] # value

\* Lines 137-141: for each value of np.unique, in its sorted order, the first position
\* of the value in the data.
first_occurences(inputs) ==
  LET arr == SortedSeq(Range(inputs))
  IN [k \in 1..Len(arr) |-> FirstIndexOf(inputs, arr[k])]

\* xs[indices]: numpy indexing by a list of positions.
Take(xs, positions) == [k \in 1..Len(positions) |-> xs[positions[k]]]

\* np.random.choice(n, size, replace=False): any `size` distinct positions in any order.
RandomChoices(n, size) ==
  { c \in [1..size -> 1..n] : \A i, j \in 1..size : i # j => c[i] # c[j] }

UniqueIdle ==
  /\ unique_total_len = 0
  /\ unique_max_len = 0
  /\ test_inputs = <<>>
  /\ test_outputs = <<>>
  /\ unique_test_inputs = <<>>
  /\ unique_test_outputs = <<>>
  /\ unique_pc = "idle"

UniqueInit ==
  /\ unique_total_len \in 1..MaxTotalLen
  /\ unique_max_len \in 1..MaxCap
  /\ test_inputs = <<>>
  /\ test_outputs = <<>>
  /\ unique_test_inputs = <<>>
  /\ unique_test_outputs = <<>>
  /\ unique_pc = "start"

\* Lines 127-130 and 134-136: the data are drawn from the case, total_len of them when
\* total_len < max_len and 3 * max_len otherwise.
UniqueGetCleanData ==
  /\ unique_pc = "start"
  /\ \E data \in CleanData(IF unique_total_len < unique_max_len THEN unique_total_len
                           ELSE 3 * unique_max_len) :
       /\ test_inputs' = data
       /\ test_outputs' = [i \in 1..Len(data) |-> CorrectOutput(data[i])]
  /\ unique_pc' = "drawn"
  /\ UNCHANGED <<unique_total_len, unique_max_len, unique_test_inputs, unique_test_outputs>>
  /\ UNCHANGED uniqueFrame

\* Lines 127-132: total_len < max_len, the data are returned as drawn.
UniqueReturnAll ==
  /\ unique_pc = "drawn"
  /\ unique_total_len < unique_max_len
  /\ unique_test_inputs' = test_inputs
  /\ unique_test_outputs' = test_outputs
  /\ unique_pc' = "returned"
  /\ UNCHANGED <<unique_total_len, unique_max_len, test_inputs, test_outputs>>
  /\ UNCHANGED uniqueFrame

\* Lines 137-144: deduplication, the same positions taken from inputs and outputs.
UniqueDeduplicate ==
  /\ unique_pc = "drawn"
  /\ ~ (unique_total_len < unique_max_len)
  /\ unique_test_inputs' = Take(test_inputs, first_occurences(test_inputs))
  /\ unique_test_outputs' = Take(test_outputs, first_occurences(test_inputs))
  /\ unique_pc' = "deduped"
  /\ UNCHANGED <<unique_total_len, unique_max_len, test_inputs, test_outputs>>
  /\ UNCHANGED uniqueFrame

\* Lines 148-153: down-sampling to max_len when more are left, then the return.
UniqueDownsample ==
  /\ unique_pc = "deduped"
  /\ IF Len(unique_test_inputs) > unique_max_len
     THEN \E random_indices \in RandomChoices(Len(unique_test_inputs), unique_max_len) :
            /\ unique_test_inputs' = Take(unique_test_inputs, random_indices)
            /\ unique_test_outputs' = Take(unique_test_outputs, random_indices)
     ELSE UNCHANGED <<unique_test_inputs, unique_test_outputs>>
  /\ unique_pc' = "returned"
  /\ UNCHANGED <<unique_total_len, unique_max_len, test_inputs, test_outputs>>
  /\ UNCHANGED uniqueFrame

UniqueNext == UniqueGetCleanData \/ UniqueReturnAll \/ UniqueDeduplicate \/ UniqueDownsample

\* No two positions of the returned dataset hold equal inputs.
NoDuplicateInputs ==
  \A i, j \in 1..Len(unique_test_inputs) :
    i # j => unique_test_inputs[i] # unique_test_inputs[j]

\* Every returned (input, output) pair is a pair of the data obtained from the case.
PairingPreserved ==
  /\ Len(unique_test_outputs) = Len(unique_test_inputs)
  /\ \A i \in 1..Len(unique_test_inputs) :
       \E k \in 1..Len(test_inputs) :
         test_inputs[k] = unique_test_inputs[i] /\ test_outputs[k] = unique_test_outputs[i]

\* C23: the dataset get_unique_data returns contains no two equal input sequences and
\* its i-th output is the output paired with its i-th input in the data obtained from
\* the case, in both branches (total_len < max_len and total_len >= max_len).
C23_UniqueAndPaired ==
  unique_pc = "returned" => NoDuplicateInputs /\ PairingPreserved

\* C23 restricted to what the code guarantees: the pairing in both branches, and no
\* duplicates in the branch total_len >= max_len.
UniqueWhenSampled ==
  unique_pc = "returned" =>
    /\ PairingPreserved
    /\ unique_total_len >= unique_max_len => NoDuplicateInputs

\* The distinct values of a sequence in the order of their first occurrence.
RECURSIVE FirstOccurrenceOrder(_)
FirstOccurrenceOrder(xs) ==
  IF xs = <<>> THEN <<>>
  ELSE LET front == FirstOccurrenceOrder(SubSeq(xs, 1, Len(xs) - 1))
       IN IF xs[Len(xs)] \in Range(front) THEN front ELSE Append(front, xs[Len(xs)])

\* C24, size part: 3 * max_len inputs are drawn, never more than max_len are returned,
\* and exactly max_len when more than max_len distinct inputs were drawn.
SizeCapped ==
  (unique_total_len >= unique_max_len /\ unique_pc \in {"drawn", "deduped", "returned"}) =>
    /\ Len(test_inputs) = 3 * unique_max_len
    /\ unique_pc = "returned" =>
         /\ Len(unique_test_inputs) <= unique_max_len
         /\ Cardinality(Range(test_inputs)) > unique_max_len
              => Len(unique_test_inputs) = unique_max_len

\* C24: when total_len >= max_len, get_unique_data draws 3 * max_len inputs, keeps the
\* first occurrence of each distinct input in first-occurrence order, and returns
\* exactly max_len sequences whenever more than max_len distinct inputs were drawn
\* (never more than max_len).
C24_OversampleDedupCap ==
  /\ SizeCapped
  /\ (unique_total_len >= unique_max_len /\ unique_pc = "deduped")
       => unique_test_inputs = FirstOccurrenceOrder(test_inputs)

(***************************************************************************)
(* TracrBenchmarkCase.get_clean_data                                       *)
(***************************************************************************)

\* Bound of the get_clean_data model.
MaxSamples == 3    \* largest min_samples / max_samples

\* An Optional[int] argument.
NoneInt == [none |-> TRUE, value |-> 0]
SomeInt(n) == [none |-> FALSE, value |-> n]
OptionalInts == {NoneInt} \cup { SomeInt(n) : n \in 0..MaxSamples }

\* gen_all_data: every input of the case once, with its correct output.
AllInputs == SortedSeq(CaseInputs)

\* Lines 157-167: the branch of the if/elif chain that is taken; "none" when no
\* condition holds and input_data stays None.
SelectedBranch(min_s, max_s, total) ==
  IF ~ min_s.none /\ ~ max_s.none /\ min_s.value < total /\ total < max_s.value THEN "all"
  ELSE IF min_s.none /\ max_s.none THEN "all"
  ELSE IF ~ min_s.none /\ total < min_s.value THEN "sample_min"
  ELSE IF ~ max_s.none THEN "sample_max"
  ELSE "none"

\* str(input) and tuple(input) of an input sequence.
PyStr(x) == [type |-> "str", of |-> x]
PyTuple(x) == [type |-> "tuple", of |-> x]

\* Lines 175-181: the positions the deduplication loop keeps. A position is kept when
\* str(input) is not in unique_inputs, the set of the tuple(input) of the positions kept
\* before it.
RECURSIVE KeptPositions(_, _)
KeptPositions(inputs, n) ==
  IF n = 0 THEN <<>>
  ELSE LET before == KeptPositions(inputs, n - 1)
           unique_inputs == { PyTuple(inputs[before[k]]) : k \in 1..Len(before) }
       IN IF PyStr(inputs[n]) \notin unique_inputs THEN Append(before, n) ELSE before

\* np.random.shuffle(indices): any permutation of the positions.
Shuffles(n) == RandomChoices(n, n)

CleanIdle ==
  /\ min_samples = NoneInt
  /\ max_samples = NoneInt
  /\ total_data_len = 0
  /\ unique_data = FALSE
  /\ data_branch = "none"
  /\ input_data = <<>>
  /\ output_data = <<>>
  /\ clean_pc = "idle"

CleanInit ==
  /\ min_samples \in OptionalInts
  /\ max_samples \in OptionalInts
  /\ total_data_len \in 1..MaxTotalLen
  /\ unique_data \in BOOLEAN
  /\ data_branch = "none"
  /\ input_data = <<>>
  /\ output_data = <<>>
  /\ clean_pc = "start"

\* Lines 155-167: gen_all_data, sample_data, or nothing.
CleanSelect ==
  /\ clean_pc = "start"
  /\ data_branch' = SelectedBranch(min_samples, max_samples, total_data_len)
  /\ \E data \in (CASE data_branch' = "all" -> {AllInputs}
                    [] data_branch' = "sample_min" -> CleanData(min_samples.value)
                    [] data_branch' = "sample_max" -> CleanData(max_samples.value)
                    [] OTHER -> {<<>>}) :
       /\ input_data' = data
       /\ output_data' = [i \in 1..Len(data) |-> CorrectOutput(data[i])]
  /\ clean_pc' = "selected"
  /\ UNCHANGED <<min_samples, max_samples, total_data_len, unique_data>>
  /\ UNCHANGED cleanFrame

\* Line 169: iterating output_data fails when it is None, and the assertion fails
\* unless two outputs differ.
CleanAssertOutputs ==
  /\ clean_pc = "selected"
  /\ clean_pc' = IF data_branch = "none" \/ Cardinality(Range(output_data)) <= 1
                 THEN "raised" ELSE "asserted"
  /\ UNCHANGED <<min_samples, max_samples, total_data_len, unique_data, data_branch,
                 input_data, output_data>>
  /\ UNCHANGED cleanFrame

\* Lines 171-183: the deduplication, when unique_data is set.
CleanDeduplicate ==
  /\ clean_pc = "asserted"
  /\ IF unique_data
     THEN /\ input_data' = Take(input_data, KeptPositions(input_data, Len(input_data)))
          /\ output_data' = Take(output_data, KeptPositions(input_data, Len(input_data)))
     ELSE UNCHANGED <<input_data, output_data>>
  /\ clean_pc' = "deduped"
  /\ UNCHANGED <<min_samples, max_samples, total_data_len, unique_data, data_branch>>
  /\ UNCHANGED cleanFrame

\* Lines 185-191: one shuffle of the positions, applied to inputs and outputs.
CleanShuffle ==
  /\ clean_pc = "deduped"
  /\ \E shuffled \in Shuffles(Len(input_data)) :
       /\ input_data' = Take(input_data, shuffled)
       /\ output_data' = Take(output_data, shuffled)
  /\ clean_pc' = "returned"
  /\ UNCHANGED <<min_samples, max_samples, total_data_len, unique_data, data_branch>>
  /\ UNCHANGED cleanFrame

CleanNext == CleanSelect \/ CleanAssertOutputs \/ CleanDeduplicate \/ CleanShuffle

\* total lies between min_samples and max_samples, a missing bound not restricting.
Between(min_s, total, max_s) ==
  /\ min_s.none \/ min_s.value <= total
  /\ max_s.none \/ total <= max_s.value

\* C26, the part the code guarantees: all data are generated only when total_data_len
\* lies between min_samples and max_samples.
AllOnlyWhenBetween ==
  (clean_pc # "start" /\ data_branch = "all") =>
    Between(min_samples, total_data_len, max_samples)

\* C26: for every combination of min_samples and max_samples (None or an integer) and
\* every total_data_len, get_clean_data selects data: all datapoints when
\* total_data_len lies between min_samples and max_samples, otherwise a sample of
\* max_samples datapoints; no combination leaves the data unselected.
C26_DataAlwaysSelected ==
  clean_pc # "start" =>
    /\ data_branch # "none"
    /\ data_branch = "all" => Between(min_samples, total_data_len, max_samples)
    /\ data_branch # "all" => ~ max_samples.none /\ Len(input_data) <= max_samples.value

\* The outputs are the correct outputs of the inputs at the same positions.
OutputsPaired ==
  /\ Len(output_data) = Len(input_data)
  /\ \A i \in 1..Len(input_data) : output_data[i] = CorrectOutput(input_data[i])

\* C27, the part the code guarantees: the pairing survives deduplication and shuffle.
PairedAfterShuffle == clean_pc = "returned" => OutputsPaired

\* C27: with unique_data = True the returned dataset contains no two equal input
\* sequences and each output is the one paired with its input.
C27_UniqueDataDeduplicated ==
  (clean_pc = "returned" /\ unique_data) =>
    /\ \A i, j \in 1..Len(input_data) : i # j => input_data[i] # input_data[j]
    /\ OutputsPaired

(***************************************************************************)
(* TracrBenchmarkCase.gen_all_data and get_total_data_len                  *)
(***************************************************************************)

\* Bounds of the data-generation model.
MaxVocab == 3     \* largest vocabulary
MaxSeqLen == 3    \* largest sequence length, BOS included

TRACR_BOS == "BOS"
TRACR_PAD == "PAD"

\* The vocabulary values in sorted order.
VocabValues == <<"a", "b", "c", "d">>

\* [TRACR_PAD] * pad_len
Pad(pad_len) == [k \in 1..pad_len |-> TRACR_PAD]

\* xs[::-1]
Reversed(xs) == [k \in 1..Len(xs) |-> xs[Len(xs) + 1 - k]]

\* The program of the case: make_reverse(rasp.tokens).
get_correct_output_for_input(sample) == Reversed(sample)

\* Lines 262-264: the digits of num in the given base as vocabulary values, least
\* significant first; the loop is not entered for num = 0.
RECURSIVE SampleDigits(_, _, _)
SampleDigits(num, base, vs) ==
  IF num = 0 THEN <<>>
  ELSE <<vs[(num % base) + 1]>> \o SampleDigits(num \div base, base, vs)

\* Mutant of IndexToSample: the list is not reversed.
IndexToSample_notReversed(index, vs, len) ==
  LET digits == SampleDigits(index, Len(vs), vs)
  IN digits \o [k \in 1..(len - 1 - Len(digits)) |-> vs[1]]

\* Lines 258-271: the sample of an index: its digits, extended with the first
\* vocabulary value up to seq_len - 1 entries, reversed.
IndexToSample(index, vs, len) ==
  LET digits == SampleDigits(index, Len(vs), vs)
  IN Reversed(digits \o [k \in 1..(len - 1 - Len(digits)) |-> vs[1]])

\* Lines 194-203 (and get_total_len, dataset.py:91-98): the sum of len(vals) ** l over
\* the lengths l from min_len to max_len.
RECURSIVE get_total_data_len(_, _, _)
get_total_data_len(n_vals, min_len, max_len) ==
  IF min_len > max_len THEN 0
  ELSE Pow(n_vals, min_len) + get_total_data_len(n_vals, min_len + 1, max_len)

GenIdle ==
  /\ vals = <<>>
  /\ min_seq_len = 0
  /\ max_seq_len = 0
  /\ seq_len = 0
  /\ next_index = 0
  /\ all_input_data = <<>>
  /\ all_output_data = <<>>
  /\ total_len = -1
  /\ all_pc = "idle"

GenInit ==
  /\ \E n \in 1..MaxVocab : vals = SubSeq(VocabValues, 1, n)
  /\ min_seq_len \in 1..MaxSeqLen
  /\ max_seq_len \in 1..MaxSeqLen
  /\ seq_len = min_seq_len
  /\ next_index = 0
  /\ all_input_data = <<>>
  /\ all_output_data = <<>>
  /\ total_len = -1
  /\ all_pc = "loop"

\* Lines 256-276: one iteration of the inner loop.
GenAllAppend ==
  /\ all_pc = "loop"
  /\ seq_len <= max_seq_len
  /\ next_index < Pow(Len(vals), seq_len - 1)
  /\ LET sample == IndexToSample(next_index, vals, seq_len)
         pad == Pad(max_seq_len - seq_len)
     IN /\ all_input_data' = Append(all_input_data, <<TRACR_BOS>> \o sample \o pad)
        /\ all_output_data' =
             Append(all_output_data,
                    <<TRACR_BOS>> \o get_correct_output_for_input(sample) \o pad)
  /\ next_index' = next_index + 1
  /\ UNCHANGED <<vals, min_seq_len, max_seq_len, seq_len, total_len, all_pc>>
  /\ UNCHANGED genFrame

\* Line 251: the inner loop is exhausted, the next sequence length follows.
GenAllNextLength ==
  /\ all_pc = "loop"
  /\ seq_len <= max_seq_len
  /\ next_index >= Pow(Len(vals), seq_len - 1)
  /\ seq_len' = seq_len + 1
  /\ next_index' = 0
  /\ UNCHANGED <<vals, min_seq_len, max_seq_len, all_input_data, all_output_data,
                 total_len, all_pc>>
  /\ UNCHANGED genFrame

\* Line 278.
GenAllReturn ==
  /\ all_pc = "loop"
  /\ seq_len > max_seq_len
  /\ all_pc' = "returned"
  /\ UNCHANGED <<vals, min_seq_len, max_seq_len, seq_len, next_index, all_input_data,
                 all_output_data, total_len>>
  /\ UNCHANGED genFrame

\* get_total_data_len() / get_total_len(case) for the same vocabulary and lengths.
GetTotalDataLen ==
  /\ all_pc = "returned"
  /\ total_len = -1
  /\ total_len' = get_total_data_len(Len(vals), min_seq_len, max_seq_len)
  /\ UNCHANGED <<vals, min_seq_len, max_seq_len, seq_len, next_index, all_input_data,
                 all_output_data, all_pc>>
  /\ UNCHANGED genFrame

GenNextLen == GenAllAppend \/ GenAllNextLength \/ GenAllReturn \/ GetTotalDataLen

\* The position in the data of the index-th sample of length len.
PositionOf(len, index) ==
  get_total_data_len(Len(vals), min_seq_len - 1, len - 2) + index + 1

\* The sample of an index written most significant digit first, padded on the left
\* with the first vocabulary value.
BaseReprSample(len, index) ==
  [k \in 1..(len - 1) |-> vals[((index \div Pow(Len(vals), len - 1 - k)) % Len(vals)) + 1]]

\* C28: gen_all_data produces, for every length l in [min_seq_len, max_seq_len], every
\* sequence of l - 1 vocabulary values exactly once, the index-th of them being the
\* index in base |vocab| padded with the first vocabulary value, most significant
\* digit first; every input and output has length max_seq_len, starts with BOS and
\* ends with max_seq_len - l PAD symbols, and the i-th output is the correct output of
\* the i-th input.
C28_GenAllDataComplete ==
  all_pc = "returned" =>
    /\ Len(all_output_data) = Len(all_input_data)
    /\ \A l \in min_seq_len..max_seq_len :
         /\ \A s \in [1..(l - 1) -> Range(vals)] :
              Cardinality({ i \in 1..Len(all_input_data) :
                              all_input_data[i] = <<TRACR_BOS>> \o s \o Pad(max_seq_len - l) }) = 1
         /\ \A index \in 0..(Pow(Len(vals), l - 1) - 1) :
              LET i == PositionOf(l, index)
              IN /\ i \in 1..Len(all_input_data)
                 /\ all_input_data[i] =
                      <<TRACR_BOS>> \o BaseReprSample(l, index) \o Pad(max_seq_len - l)
                 /\ all_output_data[i] =
                      <<TRACR_BOS>> \o get_correct_output_for_input(BaseReprSample(l, index))
                        \o Pad(max_seq_len - l)
    /\ Len(all_input_data) = get_total_data_len(Len(vals), min_seq_len - 1, max_seq_len - 1)
    /\ \A i \in 1..Len(all_input_data) :
         /\ Len(all_input_data[i]) = max_seq_len
         /\ Len(all_output_data[i]) = max_seq_len
         /\ all_input_data[i][1] = TRACR_BOS
         /\ all_output_data[i][1] = TRACR_BOS

\* Witness of C28: all data of a two-valued vocabulary for the lengths 2 and 3.
C28_Witness ==
  /\ all_pc = "returned"
  /\ Len(vals) = 2
  /\ min_seq_len = 2
  /\ max_seq_len = 3
  /\ Len(all_input_data) = 6

\* C29: the size get_total_data_len (get_total_len) reports equals the number of
\* input sequences gen_all_data(min_seq_len, max_seq_len) produces.
C29_TotalLenMatchesGenerated ==
  (all_pc = "returned" /\ total_len # -1) => total_len = Len(all_input_data)

\* What the code guarantees about the reported size: it is the number of sequences of
\* l vocabulary values (not l - 1) over the lengths l, never below the number generated
\* when there is a vocabulary.
TotalLenCountsBOSAsValue ==
  (all_pc = "returned" /\ total_len # -1) =>
    /\ total_len = get_total_data_len(Len(vals), min_seq_len, max_seq_len)
    /\ Len(vals) >= 1 => total_len >= Len(all_input_data)

(***************************************************************************)
(* NonLinearCompressedTracrTransformerTrainer                              *)
(* (training/compression/non_linear_compressed_tracr_transformer_trainer.py)*)
(***************************************************************************)

MaxGap == 2
MaxAEEpochs == 2
MaxAutoencoders == 2
MaxTrainerEpochs == 5

trainerArgs == <<freeze_ae_weights, ae_training_epochs_gap, ae_max_training_epochs,
                 ae_first_pass_epochs, n_autoencoders>>

TrainerIdle ==
  /\ freeze_ae_weights = FALSE
  /\ ae_training_epochs_gap = 0
  /\ ae_max_training_epochs = 0
  /\ ae_first_pass_epochs = 0
  /\ n_autoencoders = 0
  /\ epochs_since_last_ae_training = -1
  /\ call_max_epochs = 0
  /\ ae_position = 0
  /\ ae_training_epoch = 0
  /\ test_mse_high = FALSE
  /\ epochs_started = 0
  /\ retrained_at = {}
  /\ ae_return_pc = "idle"
  /\ trainer_pc = "idle"

\* Lines 28-40: the arguments of the constructor.
TrainerInit ==
  /\ freeze_ae_weights \in BOOLEAN
  /\ ae_training_epochs_gap \in 0..MaxGap
  /\ ae_max_training_epochs \in 0..MaxAEEpochs
  /\ ae_first_pass_epochs \in 0..MaxAEEpochs
  /\ n_autoencoders \in 1..MaxAutoencoders
  /\ epochs_since_last_ae_training = -1
  /\ call_max_epochs = 0
  /\ ae_position = 0
  /\ ae_training_epoch = 0
  /\ test_mse_high = FALSE
  /\ epochs_started = 0
  /\ retrained_at = {}
  /\ ae_return_pc = "idle"
  /\ trainer_pc = "new"

\* Mutant of InitialCounter: the counter starts at 0.
InitialCounter_zero(gap) == 0

\* Line 64: the counter starts at the gap.
InitialCounter(gap) == gap

\* Lines 51-86: __init__.  With frozen weights autoencoder_trainers_dict is None and
\* ae_training_args is never set (lines 53-56), and line 86 calls
\* train_autoencoders(self.ae_training_args.epochs) all the same: the call raises.
\* Otherwise the counter is set and the first pass of train_autoencoders starts.
TrainerConstruct ==
  /\ trainer_pc = "new"
  /\ IF freeze_ae_weights
     THEN /\ trainer_pc' = "raised"
          /\ UNCHANGED <<epochs_since_last_ae_training, call_max_epochs, ae_position,
                         ae_return_pc>>
     ELSE /\ epochs_since_last_ae_training' = InitialCounter(ae_training_epochs_gap)
          /\ call_max_epochs' = ae_first_pass_epochs
          /\ ae_position' = 1
          /\ ae_return_pc' = "ready"
          /\ trainer_pc' = "ae_for"
  /\ UNCHANGED <<trainerArgs, ae_training_epoch, test_mse_high, epochs_started, retrained_at>>
  /\ UNCHANGED trainerFrame

\* Lines 102-104: the for loop of train_autoencoders takes the next autoencoder
\* trainer, computes its test metrics and resets ae_training_epoch; after the last
\* one the call returns.
TrainAutoencodersFor ==
  /\ trainer_pc = "ae_for"
  /\ IF ae_position <= n_autoencoders
     THEN /\ test_mse_high' \in BOOLEAN
          /\ ae_training_epoch' = 0
          /\ trainer_pc' = "ae_while"
          /\ UNCHANGED <<ae_position, ae_return_pc, call_max_epochs>>
     ELSE /\ trainer_pc' = ae_return_pc
          /\ ae_position' = 0
          /\ ae_return_pc' = "idle"
          /\ call_max_epochs' = 0
          /\ ae_training_epoch' = 0
          /\ test_mse_high' = FALSE
  /\ UNCHANGED <<trainerArgs, epochs_since_last_ae_training, epochs_started, retrained_at>>
  /\ UNCHANGED trainerFrame

\* Mutant of WhileCondition: the epoch limit is not tested.
WhileCondition_noLimit(mse_high, epoch, limit) == mse_high

\* Lines 105-106: the condition of the while loop.
WhileCondition(mse_high, epoch, limit) == mse_high /\ epoch < limit

\* Lines 107-115: one epoch of one autoencoder: the training steps over the train
\* loader, the test metrics again, ae_training_epoch += 1.
TrainAutoencodersEpoch ==
  /\ trainer_pc = "ae_while"
  /\ WhileCondition(test_mse_high, ae_training_epoch, call_max_epochs)
  /\ ae_training_epoch < MaxAEEpochs + 1
  /\ test_mse_high' \in BOOLEAN
  /\ ae_training_epoch' = ae_training_epoch + 1
  /\ UNCHANGED <<trainerArgs, epochs_since_last_ae_training, call_max_epochs, ae_position,
                 epochs_started, retrained_at, ae_return_pc, trainer_pc>>
  /\ UNCHANGED trainerFrame

\* Lines 105-118: the while loop ends and the for loop goes on.
TrainAutoencodersEndWhile ==
  /\ trainer_pc = "ae_while"
  /\ ~WhileCondition(test_mse_high, ae_training_epoch, call_max_epochs)
  /\ ae_position' = ae_position + 1
  /\ trainer_pc' = "ae_for"
  /\ UNCHANGED <<trainerArgs, epochs_since_last_ae_training, call_max_epochs,
                 ae_training_epoch, test_mse_high, epochs_started, retrained_at, ae_return_pc>>
  /\ UNCHANGED trainerFrame

\* Lines 89-92: the start of training_epoch: when the counter has reached the gap it
\* is reset and train_autoencoders(ae_max_training_epochs) is called.
TrainingEpochBegin ==
  /\ trainer_pc = "ready"
  /\ epochs_started < MaxTrainerEpochs
  /\ epochs_started' = epochs_started + 1
  /\ IF ~freeze_ae_weights /\ epochs_since_last_ae_training >= ae_training_epochs_gap
     THEN /\ epochs_since_last_ae_training' = 0
          /\ retrained_at' = retrained_at \cup {epochs_started + 1}
          /\ call_max_epochs' = ae_max_training_epochs
          /\ ae_position' = 1
          /\ ae_return_pc' = "epoch_body"
          /\ trainer_pc' = "ae_for"
     ELSE /\ trainer_pc' = "epoch_body"
          /\ UNCHANGED <<epochs_since_last_ae_training, retrained_at, call_max_epochs,
                         ae_position, ae_return_pc>>
  /\ UNCHANGED <<trainerArgs, ae_training_epoch, test_mse_high>>
  /\ UNCHANGED trainerFrame

\* Lines 94-97: the transformer's epoch, then the counter is incremented.
TrainingEpochEnd ==
  /\ trainer_pc = "epoch_body"
  /\ epochs_since_last_ae_training' =
       IF ~freeze_ae_weights THEN epochs_since_last_ae_training + 1
       ELSE epochs_since_last_ae_training
  /\ trainer_pc' = "ready"
  /\ UNCHANGED <<trainerArgs, call_max_epochs, ae_position, ae_training_epoch, test_mse_high,
                 epochs_started, retrained_at, ae_return_pc>>
  /\ UNCHANGED trainerFrame

TrainerNext ==
  \/ TrainerConstruct
  \/ TrainAutoencodersFor
  \/ TrainAutoencodersEpoch
  \/ TrainAutoencodersEndWhile
  \/ TrainingEpochBegin
  \/ TrainingEpochEnd

(***************************************************************************)
(* Claims about the trainer                                                *)
(***************************************************************************)

Constructed == trainer_pc \notin {"idle", "new", "raised"}

\* The autoencoders are retrained at the start of epoch 1 and of every g-th epoch
\* after it, and of no other epoch.
RetrainedOnSchedule ==
  retrained_at = {e \in 1..epochs_started : (e - 1) % ae_training_epochs_gap = 0}

CounterInRange == epochs_since_last_ae_training \in 0..ae_training_epochs_gap

AEEpochsBounded == ae_training_epoch <= call_max_epochs

\* With unfrozen autoencoders and a gap g >= 1 the schedule, the range of the
\* counter and the bound on the epochs of each autoencoder hold.
UnfrozenSchedule ==
  (~freeze_ae_weights /\ ae_training_epochs_gap >= 1 /\ Constructed) =>
     RetrainedOnSchedule /\ CounterInRange /\ AEEpochsBounded

\* A state where the schedule has been exercised: gap 2, five epochs begun.
UnfrozenScheduleReached ==
  /\ ~freeze_ae_weights
  /\ ae_training_epochs_gap = 2
  /\ epochs_started = 5
  /\ retrained_at = {1, 3, 5}
  /\ trainer_pc = "ae_while"
  /\ ae_training_epoch = call_max_epochs
  /\ call_max_epochs = 2

\* With frozen autoencoders the trainer is constructed and no autoencoder is trained.
FrozenNeverTrains ==
  freeze_ae_weights => trainer_pc # "raised" /\ ae_position = 0 /\ retrained_at = {}

\* C30: with unfrozen autoencoders and an epoch gap g >= 1 the autoencoders are
\* retrained at the start of the first epoch and then exactly once every g epochs,
\* epochs_since_last_ae_training stays in [0, g] and every train_autoencoders call runs
\* at most max_epochs epochs per autoencoder; with freeze_ae_weights = True the trainer
\* is constructed and run without ever training an autoencoder.
C30_AutoencoderTrainingSchedule == UnfrozenSchedule /\ FrozenNeverTrains

(***************************************************************************)
(* Specifications                                                          *)
(***************************************************************************)

\* make_edge_corr on an arbitrary correspondence and arbitrary edges.
InitEdge == EdgeInit /\ SamplerIdle /\ HooksIdle /\ SweepIdle /\ MetricsIdle /\ CorrIdle /\ AddrIdle /\ UniqueIdle /\ CleanIdle /\ GenIdle /\ TrainerIdle
SpecEdge == InitEdge /\ [][EdgeNext]_vars

\* get_interventions, called up to MaxCalls times with the same arguments.
InitSampler == SamplerInit /\ EdgeIdle /\ HooksIdle /\ SweepIdle /\ MetricsIdle /\ CorrIdle /\ AddrIdle /\ UniqueIdle /\ CleanIdle /\ GenIdle /\ TrainerIdle
SpecSampler == InitSampler /\ [][SamplerNext]_vars

\* build_hook_fns for one node, then the two patched forward passes reaching the hook.
InitHooks == HooksInit /\ EdgeIdle /\ SamplerIdle /\ SweepIdle /\ MetricsIdle /\ CorrIdle /\ AddrIdle /\ UniqueIdle /\ CleanIdle /\ GenIdle /\ TrainerIdle
SpecHooks == InitHooks /\ [][HooksNext]_vars

\* One sweep: evaluate_iia over the nodes of the full circuit, or
\* get_resampling_ablation_loss over interventions and batches.
InitSweep == SweepInit /\ EdgeIdle /\ SamplerIdle /\ HooksIdle /\ MetricsIdle /\ CorrIdle /\ AddrIdle /\ UniqueIdle /\ CleanIdle /\ GenIdle /\ TrainerIdle
SpecSweep == InitSweep /\ [][SweepNext]_vars

\* The metrics of one iteration of evaluate_iia on a categorical task.
InitMetrics == MetricsInit /\ EdgeIdle /\ SamplerIdle /\ HooksIdle /\ SweepIdle /\ CorrIdle /\ AddrIdle /\ UniqueIdle /\ CleanIdle /\ GenIdle /\ TrainerIdle
SpecMetrics == InitMetrics /\ [][MetricsNext]_vars

\* A TracrCorrespondence is made, assigned to, saved and loaded.
InitCorr ==
  CorrInit /\ EdgeIdle /\ SamplerIdle /\ HooksIdle /\ SweepIdle /\ MetricsIdle /\ AddrIdle /\ UniqueIdle /\ CleanIdle /\ GenIdle /\ TrainerIdle
SpecCorr == InitCorr /\ [][CorrNext]_vars

\* hook_name and idx applied to an arbitrary location.
InitAddr == AddrInit /\ EdgeIdle /\ SamplerIdle /\ HooksIdle /\ SweepIdle /\ MetricsIdle /\ CorrIdle /\ UniqueIdle /\ CleanIdle /\ GenIdle /\ TrainerIdle
SpecAddr == InitAddr /\ [][AddrNext]_vars

\* get_unique_data on an arbitrary draw of the case's data.
InitUnique == UniqueInit /\ EdgeIdle /\ SamplerIdle /\ HooksIdle /\ SweepIdle /\ MetricsIdle /\ CorrIdle /\ AddrIdle /\ CleanIdle /\ GenIdle /\ TrainerIdle
SpecUnique == InitUnique /\ [][UniqueNext]_vars

\* get_clean_data for arbitrary min_samples, max_samples and total_data_len.
InitClean == CleanInit /\ EdgeIdle /\ SamplerIdle /\ HooksIdle /\ SweepIdle /\ MetricsIdle /\ CorrIdle /\ AddrIdle /\ UniqueIdle /\ GenIdle /\ TrainerIdle
SpecClean == InitClean /\ [][CleanNext]_vars

\* gen_all_data and get_total_data_len for an arbitrary vocabulary and lengths.
InitGen == GenInit /\ EdgeIdle /\ SamplerIdle /\ HooksIdle /\ SweepIdle /\ MetricsIdle /\ CorrIdle /\ AddrIdle /\ UniqueIdle /\ CleanIdle /\ TrainerIdle
SpecGen == InitGen /\ [][GenNextLen]_vars

InitTrainer == TrainerInit /\ EdgeIdle /\ SamplerIdle /\ HooksIdle /\ SweepIdle /\ MetricsIdle /\ CorrIdle /\ AddrIdle /\ UniqueIdle /\ CleanIdle /\ GenIdle
SpecTrainer == InitTrainer /\ [][TrainerNext]_vars

====
